---- MODULE Spec2Model ----
(***************************************************************************)
(* client-message-transformer: the bounded-concurrency pipeline of        *)
(* internal/service (Start, processMessages, processMessage,              *)
(* publishMessage, reportMetrics, Stop), the counters of internal/metrics *)
(* and the transformation engine of internal/transformer.                 *)
(*                                                                         *)
(* Strings that the code only carries around (method, bodies, ip, client  *)
(* ids) are TLA+ strings.  Strings that the code parses or formats (the   *)
(* URL, the path, the decimal status code and timestamp, header names)    *)
(* are sequences of one-character strings, so that parsing and formatting *)
(* are computed and not assumed.  An encoded header string is kept as the *)
(* JSON document it spells, or as empty, or as text that is no JSON.      *)
(***************************************************************************)
EXTENDS Integers, Sequences, FiniteSets, TLC

\* ------------------------------------------------------------------ bounds

\* config.MaxConcurrentMessages, scaled down from the configured 10.
MaxConcurrentMessages == 1

\* Number of records the source stream can deliver in one run.
MaxRecords == 2

\* Largest response.statusCode of the records the transformations are applied to.
MaxStatusCode == 520

\* Largest info.dateTime, in milliseconds, among the small timestamps of the
\* records the transformations are applied to.
MaxDateTime == 2100

\* Largest number of characters that vary in a string given to extractURI.
MaxURLLen == 4

\* Largest number of members of a JSON object given to parseHeaders.
MaxHeaderKeys == 2

\* ------------------------------------------------- JSON values of a record

\* A decoded JSON value as the type switches of the code see it: a string,
\* a number (float64), anything else (bool, null, array, object), or absent.
\* A whole number is the integer n; a whole number of ten to thirteen
\* digits, which a timestamp in milliseconds has, is kept as its decimal
\* digits d, because the seconds it stands for are compared with the range
\* of an int32.
Absent == [t |-> "absent", s |-> "", n |-> 0, d |-> <<>>]
Other == [t |-> "other", s |-> "", n |-> 0, d |-> <<>>]
Str(x) == [t |-> "string", s |-> x, n |-> 0, d |-> <<>>]
Num(k) == [t |-> "number", s |-> "", n |-> k, d |-> <<>>]
BigNum(digits) == [t |-> "number", s |-> "", n |-> 0, d |-> digits]

\* The URL is a JSON string whose characters are kept.
Chars(x) == [t |-> "string", s |-> x, n |-> 0, d |-> <<>>]

\* The encoded headers are a string that parseHeaders decodes with
\* json.Unmarshal.  Such a string is kept by what it is to the decoder: the
\* empty string, text that is no JSON, or the text of a JSON value.  JSON
\* values: a string s, a number, null, a list of values (items), an object
\* (members: a sequence of name/value pairs; names are character sequences).
JString(x) == [k |-> "string", s |-> x, items |-> <<>>, members |-> <<>>]
JNumber == [k |-> "number", s |-> "", items |-> <<>>, members |-> <<>>]
JNull == [k |-> "null", s |-> "", items |-> <<>>, members |-> <<>>]
JList(xs) == [k |-> "list", s |-> "", items |-> xs, members |-> <<>>]
JObject(ms) == [k |-> "object", s |-> "", items |-> <<>>, members |-> ms]

EmptyText == [form |-> "empty", doc |-> JNull]
InvalidText == [form |-> "invalid", doc |-> JNull]
JSONText(doc) == [form |-> "json", doc |-> doc]

\* A top-level section: input["request"].(map[string]interface{}) succeeds
\* exactly when isObject; otherwise the section is the nil map and every
\* lookup in it finds nothing.
NoRequest == [isObject |-> FALSE, url |-> Absent, method |-> Absent, headers |-> Absent, body |-> Absent]
NoResponse == [isObject |-> FALSE, headers |-> Absent, body |-> Absent, statusCode |-> Absent]
NoInfo == [isObject |-> FALSE, ip |-> Absent, dateTime |-> Absent, responseTime |-> Absent]

\* Bytes that json.Unmarshal cannot decode into a map.
Garbage == [valid |-> FALSE, request |-> NoRequest, response |-> NoResponse, info |-> NoInfo, akto_account_id |-> Absent]

\* ------------------------------------------------------ character strings

Letters == {"a", "b", "c", "h", "p", "s", "t", "u", "v", "x"}
Digits == {"0", "1", "2", "3", "4", "5", "6", "7", "8", "9"}

\* A control character (what stringContainsCTLByte looks for).
CTL == "^"

\* strings.Index(s, c) + 1, and 0 when c does not occur.
RECURSIVE IndexFrom(_, _, _)
IndexFrom(s, c, i) ==
    IF i > Len(s) THEN 0
    ELSE IF s[i] = c THEN i
    ELSE IndexFrom(s, c, i + 1)

Index(s, c) == IndexFrom(s, c, 1)

Contains(s, c) == Index(s, c) # 0

Count(s, c) == Cardinality({i \in 1..Len(s) : s[i] = c})

HasPrefix(s, p) == Len(s) >= Len(p) /\ SubSeq(s, 1, Len(p)) = p

\* strings.Cut(s, c): before, after, found.
Cut(s, c) ==
    LET i == Index(s, c)
    IN  IF i = 0 THEN [before |-> s, after |-> <<>>, found |-> FALSE]
        ELSE [before |-> SubSeq(s, 1, i - 1), after |-> SubSeq(s, i + 1, Len(s)), found |-> TRUE]

\* fmt.Sprintf("%d", n)
DigitOf(d) == CASE d = 0 -> "0" [] d = 1 -> "1" [] d = 2 -> "2" [] d = 3 -> "3" [] d = 4 -> "4"
                [] d = 5 -> "5" [] d = 6 -> "6" [] d = 7 -> "7" [] d = 8 -> "8" [] d = 9 -> "9"

RECURSIVE FormatNat(_)
FormatNat(n) == IF n < 10 THEN <<DigitOf(n)>> ELSE Append(FormatNat(n \div 10), DigitOf(n % 10))

FormatInt(n) == IF n < 0 THEN <<"-">> \o FormatNat(0 - n) ELSE FormatNat(n)

\* Go's integer division truncates toward zero.
TruncDiv(a, b) == IF a >= 0 THEN a \div b ELSE 0 - ((0 - a) \div b)

\* The value of a string of decimal digits.
RECURSIVE DigitsValue(_)
DigitsValue(s) ==
    IF s = <<>> THEN 0
    ELSE 10 * DigitsValue(SubSeq(s, 1, Len(s) - 1))
         + (CHOOSE d \in 0..9 : DigitOf(d) = s[Len(s)])

\* A whole number of at most ten decimal digits as hi * 10^5 + lo.
HiLo(digits) ==
    IF Len(digits) <= 5 THEN [hi |-> 0, lo |-> DigitsValue(digits)]
    ELSE [hi |-> DigitsValue(SubSeq(digits, 1, Len(digits) - 5)),
          lo |-> DigitsValue(SubSeq(digits, Len(digits) - 4, Len(digits)))]

HiLoLess(a, b) == a.hi < b.hi \/ (a.hi = b.hi /\ a.lo < b.lo)

\* hi * 10^5 + lo for a number within the range of an int32.
HiLoValue(hi, lo) ==
    IF hi < 0 /\ lo > 0 THEN (hi + 1) * 100000 + (lo - 100000)
    ELSE IF hi > 0 /\ lo < 0 THEN (hi - 1) * 100000 + (lo + 100000)
    ELSE hi * 100000 + lo

TwoTo31 == [hi |-> 21474, lo |-> 83648]
TwoTo32 == [hi |-> 42949, lo |-> 67296]
ThreeTimesTwoTo31 == [hi |-> 64424, lo |-> 50944]

\* int32(x) for the int64 x written with the given digits, 0 <= x < 10^10:
\* the low 32 bits of x, read as a signed number.
Int32OfDigits(digits) ==
    LET x == HiLo(digits)
        k == IF HiLoLess(x, TwoTo31) THEN 0 ELSE IF HiLoLess(x, ThreeTimesTwoTo31) THEN 1 ELSE 2
    IN  HiLoValue(x.hi - k * TwoTo32.hi, x.lo - k * TwoTo32.lo)

\* x / 1000 for the int64 x >= 0 written with the given digits.
DivThousand(digits) == IF Len(digits) <= 3 THEN <<"0">> ELSE SubSeq(digits, 1, Len(digits) - 3)

\* ------------------------------------------------------------ net/url.Parse

HexDigits == Digits \cup {"a", "b", "c", "d", "e", "f", "A", "B", "C", "D", "E", "F"}

\* The byte a valid escape %h1h2 stands for, for the escapes of the alphabet.
ByteChar(h1, h2) ==
    CASE h1 = "2" /\ h2 = "0" -> " "
      [] h1 = "2" /\ h2 = "2" -> "\""
      [] h1 = "2" /\ h2 \in {"f", "F"} -> "/"
      [] h1 = "3" /\ h2 \in {"f", "F"} -> "?"
      [] h1 = "6" /\ h2 = "1" -> "a"
      [] OTHER -> "~"

\* url.unescape: the error check (every % is followed by two hex digits).
RECURSIVE EscapesOk(_, _)
EscapesOk(s, i) ==
    IF i > Len(s) THEN TRUE
    ELSE IF s[i] = "%"
         THEN /\ i + 2 <= Len(s)
              /\ s[i + 1] \in HexDigits
              /\ s[i + 2] \in HexDigits
              /\ EscapesOk(s, i + 3)
         ELSE EscapesOk(s, i + 1)

\* url.unescape: the decoded string of a string whose escapes are valid.
RECURSIVE Unescape(_, _)
Unescape(s, i) ==
    IF i > Len(s) THEN <<>>
    ELSE IF s[i] = "%"
         THEN <<ByteChar(s[i + 1], s[i + 2])>> \o Unescape(s, i + 3)
         ELSE <<s[i]>> \o Unescape(s, i + 1)

\* url.getScheme: scheme, rest, err.
RECURSIVE getScheme(_, _)
getScheme(rawURL, i) ==
    IF i > Len(rawURL) THEN [scheme |-> <<>>, rest |-> rawURL, err |-> FALSE]
    ELSE IF rawURL[i] \in Letters THEN getScheme(rawURL, i + 1)
    ELSE IF rawURL[i] \in Digits \cup {"+", "-", "."}
         THEN IF i = 1 THEN [scheme |-> <<>>, rest |-> rawURL, err |-> FALSE]
              ELSE getScheme(rawURL, i + 1)
    ELSE IF rawURL[i] = ":"
         THEN IF i = 1 THEN [scheme |-> <<>>, rest |-> <<>>, err |-> TRUE]
              ELSE [scheme |-> SubSeq(rawURL, 1, i - 1), rest |-> SubSeq(rawURL, i + 1, Len(rawURL)), err |-> FALSE]
    ELSE [scheme |-> <<>>, rest |-> rawURL, err |-> FALSE]

\* strings.LastIndex(s, c) + 1
LastIndex(s, c) ==
    LET at == {i \in 1..Len(s) : s[i] = c}
    IN  IF at = {} THEN 0 ELSE CHOOSE i \in at : \A j \in at : j <= i

\* url.unescape in encodeHost mode: an escape of a byte below 0x80 other than
\* %25 is rejected.
HostEscapesOk(host) ==
    /\ EscapesOk(host, 1)
    /\ \A i \in 1..Len(host) :
          host[i] = "%" => \/ host[i + 1] \notin {"0", "1", "2", "3", "4", "5", "6", "7"}
                           \/ (host[i + 1] = "2" /\ host[i + 2] = "5")

\* url.parseAuthority / parseHost: the authority is accepted when an optional
\* port is all digits and the escapes of the host are valid.
AuthorityOk(authority) ==
    LET at == LastIndex(authority, "@")
        host == IF at = 0 THEN authority ELSE SubSeq(authority, at + 1, Len(authority))
        colon == LastIndex(host, ":")
        port == IF colon = 0 THEN <<>> ELSE SubSeq(host, colon + 1, Len(host))
    IN  /\ \A i \in 1..Len(port) : port[i] \in Digits
        /\ HostEscapesOk(host)

ParseFail == [err |-> TRUE, Path |-> <<>>, RawQuery |-> <<>>]

\* URL.setPath: the path must unescape; Path is the decoded path.
setPath(p, rawQuery) ==
    IF ~EscapesOk(p, 1) THEN ParseFail
    ELSE [err |-> FALSE, Path |-> Unescape(p, 1), RawQuery |-> rawQuery]

\* url.parse, the authority: rest[2:] up to the next "/" is the authority,
\* what follows is the path.
parseAuthorityAt(afterSlashes, slash, rawQuery) ==
    IF ~AuthorityOk(IF slash = 0 THEN afterSlashes ELSE SubSeq(afterSlashes, 1, slash - 1))
    THEN ParseFail
    ELSE setPath(IF slash = 0 THEN <<>> ELSE SubSeq(afterSlashes, slash, Len(afterSlashes)), rawQuery)

\* url.parse after the scheme and the query are split off.
parseRest(scheme, rest, rawQuery) ==
    IF ~HasPrefix(rest, <<"/">>) /\ scheme # <<>>
    THEN [err |-> FALSE, Path |-> <<>>, RawQuery |-> rawQuery]
    ELSE IF ~HasPrefix(rest, <<"/">>) /\ Contains(Cut(rest, "/").before, ":")
    THEN ParseFail
    ELSE IF HasPrefix(rest, <<"/", "/">>) /\ (scheme # <<>> \/ ~HasPrefix(rest, <<"/", "/", "/">>))
    THEN parseAuthorityAt(SubSeq(rest, 3, Len(rest)), Index(SubSeq(rest, 3, Len(rest)), "/"), rawQuery)
    ELSE setPath(rest, rawQuery)

\* url.parse, the query: a lone trailing "?" is dropped (ForceQuery),
\* otherwise the text after the first "?" is RawQuery.
parseQuery(scheme, rest) ==
    IF Len(rest) > 0 /\ rest[Len(rest)] = "?" /\ Count(rest, "?") = 1
    THEN parseRest(scheme, SubSeq(rest, 1, Len(rest) - 1), <<>>)
    ELSE parseRest(scheme, Cut(rest, "?").before, Cut(rest, "?").after)

parseScheme(sch) == IF sch.err THEN ParseFail ELSE parseQuery(sch.scheme, sch.rest)

\* url.parse(rawURL, viaRequest = false) on the part before the fragment.
parse(u) ==
    IF Contains(u, CTL) THEN ParseFail
    ELSE IF u = <<"*">> THEN [err |-> FALSE, Path |-> <<"*">>, RawQuery |-> <<>>]
    ELSE parseScheme(getScheme(u, 1))

\* url.Parse, the fragment: it must unescape.
setFragment(url, frag) ==
    IF url.err THEN url
    ELSE IF frag # <<>> /\ ~EscapesOk(frag, 1) THEN ParseFail
    ELSE url

\* url.Parse: the fragment is cut off first.
Parse(rawURL) == setFragment(parse(Cut(rawURL, "#").before), Cut(rawURL, "#").after)

\* ------------------------------------------------- internal/transformer

\* extractURI after url.Parse: the input when parsing failed, else the path,
\* with "?" and the query when there is one.
pathWithQuery(fullURL, parsedURL) ==
    IF parsedURL.err THEN fullURL
    ELSE IF parsedURL.RawQuery # <<>> THEN parsedURL.Path \o <<"?">> \o parsedURL.RawQuery
    ELSE parsedURL.Path

\* extractURI: the path (and query) of a full URL.
extractURI(fullURL) == IF fullURL = <<>> THEN <<>> ELSE pathWithQuery(fullURL, Parse(fullURL))

\* A table that lacks 204.
getStatusWithout204(code) ==
    CASE code = 200 -> "OK"
      [] code = 201 -> "Created"
      [] code = 400 -> "Bad Request"
      [] code = 401 -> "Unauthorized"
      [] code = 403 -> "Forbidden"
      [] code = 404 -> "Not Found"
      [] code = 500 -> "Internal Server Error"
      [] code = 502 -> "Bad Gateway"
      [] code = 503 -> "Service Unavailable"
      [] OTHER -> "Unknown"

\* getStatus: the static table of reason phrases.
getStatus(code) ==
    CASE code = 200 -> "OK"
      [] code = 201 -> "Created"
      [] code = 204 -> "No Content"
      [] code = 400 -> "Bad Request"
      [] code = 401 -> "Unauthorized"
      [] code = 403 -> "Forbidden"
      [] code = 404 -> "Not Found"
      [] code = 500 -> "Internal Server Error"
      [] code = 502 -> "Bad Gateway"
      [] code = 503 -> "Service Unavailable"
      [] OTHER -> "Unknown"

\* getNestedString(parent, key): the string under key, "" when the parent is
\* the nil map, the key is absent or the value is not a string.  empty is the
\* empty string of the field's representation.
getNestedString(parent, v, empty) ==
    IF parent.isObject /\ v.t = "string" THEN v.s ELSE empty

\* getNestedFloat(parent, key): the number under key, 0 otherwise.
getNestedFloat(parent, v) ==
    IF parent.isObject /\ v.t = "number" THEN v.n ELSE 0

\* request["headers"].(string): a single-value type assertion, which panics
\* when the value is absent (also when request is the nil map) or no string.
AssertString(parent, v) ==
    IF parent.isObject /\ v.t = "string" THEN [panic |-> FALSE, s |-> v.s] ELSE [panic |-> TRUE, s |-> v.s]

NoOutput ==
    [path |-> <<>>, method |-> "", requestHeaders |-> EmptyText, requestPayload |-> "", type |-> "",
     responseHeaders |-> EmptyText, responsePayload |-> "", statusCode |-> <<>>, status |-> "",
     contentType |-> EmptyText, ip |-> "", time |-> <<>>, akto_account_id |-> "", responseTime |-> 0,
     source |-> ""]

\* TransformMessage(data, clientID): kind is "error" when json.Unmarshal
\* fails, "panic" when a type assertion panics, "ok" with the flat record.
TransformMessage(data, clientID) ==
    LET request == data.request
        response == data.response
        info == data.info
        fullURL == getNestedString(request, request.url, <<>>)
        requestHeaders == AssertString(request, request.headers)
        requestPayload == AssertString(request, request.body)
        responseHeaders == getNestedString(response, response.headers, EmptyText)
        statusCode == getNestedFloat(response, response.statusCode)
        dateTime == getNestedFloat(info, info.dateTime)
        bigTime == info.isObject /\ info.dateTime.t = "number" /\ info.dateTime.d # <<>>
    IN  IF ~data.valid THEN [kind |-> "error", output |-> NoOutput]
        ELSE IF requestHeaders.panic \/ requestPayload.panic THEN [kind |-> "panic", output |-> NoOutput]
        ELSE [kind |-> "ok",
              output |-> [path |-> extractURI(fullURL),
                          method |-> getNestedString(request, request.method, ""),
                          requestHeaders |-> requestHeaders.s,
                          requestPayload |-> requestPayload.s,
                          type |-> "HTTP/1.1",
                          responseHeaders |-> responseHeaders,
                          responsePayload |-> getNestedString(response, response.body, ""),
                          statusCode |-> FormatInt(statusCode),
                          status |-> getStatus(statusCode),
                          contentType |-> responseHeaders,
                          ip |-> getNestedString(info, info.ip, ""),
                          time |-> IF bigTime THEN DivThousand(info.dateTime.d)
                                   ELSE FormatInt(TruncDiv(dateTime, 1000)),
                          akto_account_id |-> clientID,
                          responseTime |-> getNestedFloat(info, info.responseTime),
                          source |-> "MIRRORING"]]

\* strings.ToLower on a header name.
UpperCase == <<"A", "B", "C", "D", "E", "F", "G", "H", "I", "J", "K", "L", "M",
               "N", "O", "P", "Q", "R", "S", "T", "U", "V", "W", "X", "Y", "Z">>
LowerCase == <<"a", "b", "c", "d", "e", "f", "g", "h", "i", "j", "k", "l", "m",
               "n", "o", "p", "q", "r", "s", "t", "u", "v", "w", "x", "y", "z">>

ToLowerChar(c) ==
    IF \E i \in 1..Len(UpperCase) : UpperCase[i] = c
    THEN LowerCase[CHOOSE i \in 1..Len(UpperCase) : UpperCase[i] = c]
    ELSE c

ToLower(s) == [i \in 1..Len(s) |-> ToLowerChar(s[i])]

\* json.Unmarshal([]byte(headersStr), &headersMap): an error for text that
\* is no JSON and for a JSON value that is no object and not null; for null
\* no error and the nil map; for an object its members, the last one of
\* those that have the same name.
UnmarshalMap(text) ==
    IF text.form # "json" THEN [err |-> TRUE, members |-> <<>>]
    ELSE IF text.doc.k = "null" THEN [err |-> FALSE, members |-> <<>>]
    ELSE IF text.doc.k # "object" THEN [err |-> TRUE, members |-> <<>>]
    ELSE LET ms == text.doc.members
             IsLast(i) == \A j \in (i + 1)..Len(ms) : ms[j].name # ms[i].name
         IN  [err |-> FALSE, members |-> SelectSeq([i \in 1..Len(ms) |-> [name |-> ms[i].name, value |-> ms[i].value, last |-> IsLast(i)]],
                                                   LAMBDA m : m.last)]

\* The switch on the type of a header's value: a string gives the list of
\* that string, a list gives its elements that are strings, anything else
\* the nil list.
IsJString(v) == v.k = "string"

HeaderValues(value) ==
    IF value.k = "string" THEN <<value.s>>
    ELSE IF value.k = "list"
         THEN LET strs == SelectSeq(value.items, IsJString)
              IN  [i \in 1..Len(strs) |-> strs[i].s]
         ELSE <<>>

NoHeaders == [name \in {} |-> <<>>]

\* The members of the decoded object that are stored under one lower-cased
\* name.
FoldedTo(members, lower) == {i \in 1..Len(members) : ToLower(members[i].name) = lower}

FoldedNames(members) == {ToLower(members[i].name) : i \in 1..Len(members)}

\* The orders in which range headersMap can visit the decoded keys matter
\* only through the key visited last among those with the same lower-cased
\* name: last names that key for every lower-cased name.
HeaderOrders(headersStr) ==
    LET members == UnmarshalMap(headersStr).members
    IN  {last \in [FoldedNames(members) -> 1..Len(members)] :
            \A lower \in FoldedNames(members) : last[lower] \in FoldedTo(members, lower)}

\* parseHeaders(headersStr), for the iteration order described by last.
parseHeaders(headersStr, last) ==
    IF headersStr.form = "empty" THEN NoHeaders
    ELSE LET decoded == UnmarshalMap(headersStr)
         IN  IF decoded.err THEN NoHeaders
             ELSE [lower \in FoldedNames(decoded.members) |->
                      HeaderValues(decoded.members[last[lower]].value)]

\* strings.Split(s, "/")
RECURSIVE Split(_, _)
Split(s, c) ==
    IF Index(s, c) = 0 THEN <<s>>
    ELSE <<SubSeq(s, 1, Index(s, c) - 1)>> \o Split(SubSeq(s, Index(s, c) + 1, Len(s)), c)

\* extractHostFromURL(fullURL): the third part of the URL split at "/".
extractHostFromURL(fullURL) ==
    IF fullURL = <<>> THEN <<>>
    ELSE LET parts == Split(fullURL, "/")
         IN  IF Len(parts) >= 3 THEN parts[3] ELSE <<>>

HostKey == <<"h", "o", "s", "t">>

\* headers[key] = value on a Go map.
MapPut(headers, key, value) ==
    [name \in DOMAIN headers \cup {key} |-> IF name = key THEN value ELSE headers[name]]

NoProto ==
    [Method |-> "", Path |-> <<>>, Type |-> "", RequestHeaders |-> NoHeaders, RequestPayload |-> "",
     ResponseHeaders |-> NoHeaders, ResponsePayload |-> "", Ip |-> "", Time |-> 0, StatusCode |-> 0,
     Status |-> "", AktoAccountId |-> "", AktoVxlanId |-> "", IsPending |-> FALSE, Source |-> "",
     Direction |-> "", DestIp |-> ""]

\* TransformToProto(data, clientID), for the iteration orders of the two
\* calls of parseHeaders: kind is "error" when json.Unmarshal fails, else
\* "ok" with the protobuf message.  The status codes of the records
\* considered fit an int32.
TransformToProto(data, clientID, reqLast, respLast) ==
    LET request == data.request
        response == data.response
        info == data.info
        fullURL == getNestedString(request, request.url, <<>>)
        requestHeaders == getNestedString(request, request.headers, EmptyText)
        responseHeaders == getNestedString(response, response.headers, EmptyText)
        statusCode == getNestedFloat(response, response.statusCode)
        dateTime == getNestedFloat(info, info.dateTime)
        bigTime == info.isObject /\ info.dateTime.t = "number" /\ info.dateTime.d # <<>>
        host == extractHostFromURL(fullURL)
        parsedReq == parseHeaders(requestHeaders, reqLast)
        reqHeaderMap == IF host # <<>> THEN MapPut(parsedReq, HostKey, <<host>>) ELSE parsedReq
    IN  IF ~data.valid THEN [kind |-> "error", output |-> NoProto]
        ELSE [kind |-> "ok",
              output |-> [Method |-> getNestedString(request, request.method, ""),
                          Path |-> extractURI(fullURL),
                          Type |-> "HTTP/1.1",
                          RequestHeaders |-> reqHeaderMap,
                          RequestPayload |-> getNestedString(request, request.body, ""),
                          ResponseHeaders |-> parseHeaders(responseHeaders, respLast),
                          ResponsePayload |-> getNestedString(response, response.body, ""),
                          Ip |-> getNestedString(info, info.ip, ""),
                          Time |-> IF bigTime THEN Int32OfDigits(DivThousand(info.dateTime.d))
                                   ELSE TruncDiv(dateTime, 1000),
                          StatusCode |-> statusCode,
                          Status |-> getStatus(statusCode),
                          AktoAccountId |-> clientID,
                          AktoVxlanId |-> "0",
                          IsPending |-> FALSE,
                          Source |-> "MIRRORING",
                          Direction |-> "",
                          DestIp |-> ""]]

\* Leading zeros removed, down to one digit.
RECURSIVE TrimZeros(_)
TrimZeros(digits) ==
    IF Len(digits) > 1 /\ digits[1] = "0" THEN TrimZeros(Tail(digits)) ELSE digits

\* strconv.ParseInt(v, 10, 32): an optional sign and decimal digits; a syntax
\* error for anything else and a range error outside -2^31 .. 2^31 - 1.
ParseInt(v) ==
    LET signed == v # <<>> /\ v[1] \in {"-", "+"}
        negative == signed /\ v[1] = "-"
        digits == IF signed THEN SubSeq(v, 2, Len(v)) ELSE v
        x == HiLo(TrimZeros(digits))
    IN  IF digits = <<>> \/ \E i \in 1..Len(digits) : digits[i] \notin Digits
        THEN [err |-> TRUE, i |-> 0]
        ELSE IF Len(TrimZeros(digits)) > 10 THEN [err |-> TRUE, i |-> 0]
        ELSE IF negative /\ (HiLoLess(x, TwoTo31) \/ x = TwoTo31) THEN [err |-> FALSE, i |-> HiLoValue(0 - x.hi, 0 - x.lo)]
        ELSE IF ~negative /\ HiLoLess(x, TwoTo31) THEN [err |-> FALSE, i |-> HiLoValue(x.hi, x.lo)]
        ELSE [err |-> TRUE, i |-> 0]

\* getString(key): the string under key, "" when the key is missing or its
\* value is no string.  empty is the empty string of the field's
\* representation.
getString(v, empty) == IF v.t = "string" THEN v.s ELSE empty

\* A getInt32 that keeps -1 for a string that is no number.
getInt32Unparsed(v) ==
    IF v.t = "number" THEN v.n
    ELSE IF v.t = "string" THEN (IF ParseInt(v.s).err THEN -1 ELSE ParseInt(v.s).i)
    ELSE 0

\* getInt32(key): a number converted to int32, a string parsed by
\* strconv.ParseInt, 0 when the key is missing, the string is no int32 or the
\* value has another type.  The numbers considered fit an int32.
getInt32(v) ==
    IF v.t = "number" THEN v.n
    ELSE IF v.t = "string" THEN (IF ParseInt(v.s).err THEN 0 ELSE ParseInt(v.s).i)
    ELSE 0

\* The map[string]interface{} TransformMessage returns: every field a
\* string, responseTime an int.
FlatMap(output) ==
    [key \in DOMAIN output |-> IF key = "responseTime" THEN Num(output[key]) ELSE Str(output[key])]

\* TransformToProtoFromFlat(flatData), for the iteration orders of the two
\* calls of parseHeaders.  It has no return but `return payload, nil`.
TransformToProtoFromFlat(flatData, reqLast, respLast) ==
    [Method |-> getString(flatData.method, ""),
     Path |-> getString(flatData.path, <<>>),
     Type |-> getString(flatData.type, ""),
     RequestHeaders |-> parseHeaders(getString(flatData.requestHeaders, EmptyText), reqLast),
     RequestPayload |-> getString(flatData.requestPayload, ""),
     ResponseHeaders |-> parseHeaders(getString(flatData.responseHeaders, EmptyText), respLast),
     ResponsePayload |-> getString(flatData.responsePayload, ""),
     Ip |-> getString(flatData.ip, ""),
     Time |-> getInt32(flatData.time),
     StatusCode |-> getInt32(flatData.statusCode),
     Status |-> getString(flatData.status, ""),
     AktoAccountId |-> getString(flatData.akto_account_id, ""),
     AktoVxlanId |-> "0",
     IsPending |-> FALSE,
     Source |-> getString(flatData.source, ""),
     Direction |-> "",
     DestIp |-> ""]

\* extractClientID(kafkaMsg): the client_id header, else the non-empty
\* akto_account_id of the payload, else "default-client".
RECURSIVE HeaderValue(_, _, _)
HeaderValue(headers, key, i) ==
    IF i > Len(headers) THEN [found |-> FALSE, value |-> ""]
    ELSE IF headers[i].Key = key THEN [found |-> TRUE, value |-> headers[i].Value]
    ELSE HeaderValue(headers, key, i + 1)

extractClientID(kafkaMsg) ==
    LET header == HeaderValue(kafkaMsg.Headers, "client_id", 1)
        data == kafkaMsg.Value
    IN  IF header.found THEN header.value
        ELSE IF data.valid /\ data.akto_account_id.t = "string" /\ data.akto_account_id.s # ""
             THEN data.akto_account_id.s
        ELSE "default-client"

\* ------------------------------------------------------- the source stream

\* config.ClientID (the CLIENT_ID environment variable).
ConfigClientID == "cfg-client"

URLUsers == <<"h", "t", "t", "p", ":", "/", "/", "h", "/", "v", "1", "?", "x">>

Complete ==
    [valid |-> TRUE,
     request |-> [isObject |-> TRUE, url |-> Chars(URLUsers), method |-> Str("GET"),
                  headers |-> Str(JSONText(JObject(<<>>))), body |-> Str("")],
     response |-> [isObject |-> TRUE, headers |-> Str(JSONText(JObject(<<>>))), body |-> Str("ok"),
                   statusCode |-> Num(201)],
     info |-> [isObject |-> TRUE, ip |-> Str("1.2.3.4"), dateTime |-> Num(1700000), responseTime |-> Num(12)],
     akto_account_id |-> Absent]

\* A record that decodes but has no request.headers and no request.body.
Incomplete ==
    [Complete EXCEPT !.request.headers = Absent, !.request.body = Absent,
                     !.akto_account_id = Str("acct-7")]

\* The records the source stream can deliver (kafkalib.Message: Headers, Value).
PipelineRecords ==
    << [Headers |-> <<[Key |-> "client_id", Value |-> "acct-42"]>>, Value |-> Complete],
       [Headers |-> <<>>, Value |-> Garbage],
       [Headers |-> <<>>, Value |-> Incomplete] >>

Tasks == 1..MaxRecords

\* --------------------------------------------------------------- the state

VARIABLES
    svc,            \* Start: "created", "running" (returned nil), "failed" (returned the error)
    disp,           \* processMessages: "none", "select", "reading" (in ReadMessage), "acquire" (at semaphore <- true), "exited"
    rep,            \* reportMetrics: "none", "loop", "exited"
    tick,           \* commitTicker.C holds a tick
    stopChan,       \* "open" or "closed"
    ctxDone,        \* the context given to Start is cancelled
    semaphore,      \* len(semaphore)
    slots,          \* cap(semaphore)
    wg,             \* the WaitGroup counter
    curMsg,         \* the record the dispatcher holds while it acquires a slot
    fetched,        \* number of records ReadMessage has returned, the consumed position
    committed,      \* the committed position
    tpc,            \* per Task: "none", "launched", "publish", "ended", "released", "done"
    tmsg,           \* per Task: kafkaMsg (index in PipelineRecords), 0 outside processMessage
    tcid,           \* per Task: clientID
    tpanic,         \* per Task: the goroutine is unwinding a panic
    metrics,        \* metrics.Metrics
    dest,           \* destination stream: the messages delivered, in order
    stop,           \* Stop: "none", "select", "closing", "returned"
    stopBranch,     \* the branch Stop's select took: "none", "done", "timeout"
    consumerClosed,
    producerClosed,
    warned,         \* "Shutdown timeout exceeded" was logged
    stopErr,        \* what Stop returned: "none" before it returns, then "nil"
    crashed,        \* the process died of an unrecovered panic
    call            \* a function of internal/transformer called on its own: its arguments and what it returned

vars == <<svc, disp, rep, tick, stopChan, ctxDone, semaphore, slots, wg, curMsg, fetched, committed,
          tpc, tmsg, tcid, tpanic, metrics, dest, stop, stopBranch,
          consumerClosed, producerClosed, warned, stopErr, crashed, call>>

svcVars == <<svc, disp, rep, tick, stopChan, ctxDone, semaphore, slots, wg, curMsg, fetched, committed,
             tpc, tmsg, tcid, tpanic, metrics, dest, stop, stopBranch,
             consumerClosed, producerClosed, warned, stopErr, crashed>>

taskVars == <<tpc, tmsg, tcid, tpanic, metrics, dest>>
stopVars == <<stop, stopBranch, consumerClosed, producerClosed, warned, stopErr>>

\* No function of internal/transformer is called on its own.
NoCall == [fn |-> "none"]

\* The service as New returns it.
NewService(capacity) ==
    /\ svc = "created"
    /\ disp = "none"
    /\ rep = "none"
    /\ tick = FALSE
    /\ stopChan = "open"
    /\ ctxDone = FALSE
    /\ semaphore = 0
    /\ wg = 0
    /\ curMsg = 0
    /\ fetched = 0
    /\ committed = 0
    /\ tpc = [t \in Tasks |-> "none"]
    /\ tmsg = [t \in Tasks |-> 0]
    /\ tcid = [t \in Tasks |-> ""]
    /\ tpanic = [t \in Tasks |-> FALSE]
    /\ metrics = [MessagesReceived |-> 0, MessagesTransformed |-> 0, MessagesFailed |-> 0,
                  MessagesPublished |-> 0, TotalProcessingTime |-> 0]
    /\ dest = <<>>
    /\ stop = "none"
    /\ stopBranch = "none"
    /\ consumerClosed = FALSE
    /\ producerClosed = FALSE
    /\ warned = FALSE
    /\ stopErr = "none"
    /\ crashed = FALSE
    /\ slots = capacity

ServiceInit == NewService(MaxConcurrentMessages)

Init == ServiceInit /\ call = NoCall

\* The concurrency limit of a service with room for more than one Task at a
\* time.
ConcurrentPair == 2

InitOrder == NewService(ConcurrentPair) /\ call = NoCall

\* ------------------------------------------------------- internal/metrics

IncrementReceived(m) == [m EXCEPT !.MessagesReceived = @ + 1]
IncrementTransformed(m) == [m EXCEPT !.MessagesTransformed = @ + 1]
IncrementFailed(m) == [m EXCEPT !.MessagesFailed = @ + 1]
IncrementPublished(m) == [m EXCEPT !.MessagesPublished = @ + 1]
AddProcessingTime(m, duration) == [m EXCEPT !.TotalProcessingTime = @ + duration]

\* time.Since(startTime) of a Task, in ticks of the model's clock.
TaskDuration == 1

\* --------------------------------------------------------------- Start

\* (A Start that launches its goroutines before it subscribes.)
StartLaunchesFirst ==
    /\ ~crashed
    /\ svc = "created"
    /\ svc' \in {"failed", "running"}
    /\ wg' = wg + 2
    /\ disp' = "select"
    /\ rep' = "loop"
    /\ UNCHANGED <<tick, curMsg, fetched, committed, stopChan, ctxDone, semaphore>>
    /\ UNCHANGED taskVars
    /\ UNCHANGED stopVars
    /\ UNCHANGED crashed
    /\ UNCHANGED <<call, slots>>

\* Start: SubscribeTopics fails and Start returns the error, or it succeeds
\* and Start launches processMessages and reportMetrics.
Start ==
    /\ ~crashed
    /\ svc = "created"
    /\ \/ /\ svc' = "failed"
          /\ UNCHANGED <<disp, rep, wg>>
       \/ /\ svc' = "running"
          /\ wg' = wg + 2
          /\ disp' = "select"
          /\ rep' = "loop"
    /\ UNCHANGED <<tick, curMsg, fetched, committed, stopChan, ctxDone, semaphore>>
    /\ UNCHANGED taskVars
    /\ UNCHANGED stopVars
    /\ UNCHANGED crashed
    /\ UNCHANGED <<call, slots>>

\* The context given to Start is cancelled.
CancelCtx ==
    /\ ~crashed
    /\ svc = "running"
    /\ ~ctxDone
    /\ ctxDone' = TRUE
    /\ UNCHANGED <<svc, disp, rep, tick, stopChan, semaphore, wg, curMsg, fetched, committed, crashed>>
    /\ UNCHANGED taskVars
    /\ UNCHANGED stopVars
    /\ UNCHANGED <<call, slots>>

\* ------------------------------------------------------ processMessages

DispatcherAlive == disp \in {"select", "reading", "acquire"}

\* commitTicker fires; a tick that finds the channel full is dropped.
TickFire ==
    /\ ~crashed
    /\ DispatcherAlive
    /\ ~tick
    /\ tick' = TRUE
    /\ UNCHANGED <<svc, disp, rep, stopChan, ctxDone, semaphore, wg, curMsg, fetched, committed, crashed>>
    /\ UNCHANGED taskVars
    /\ UNCHANGED stopVars
    /\ UNCHANGED <<call, slots>>

\* case <-s.stopChan: return (deferred wg.Done)
DispatcherStop ==
    /\ ~crashed
    /\ disp = "select"
    /\ stopChan = "closed"
    /\ disp' = "exited"
    /\ wg' = wg - 1
    /\ UNCHANGED <<svc, rep, tick, stopChan, ctxDone, semaphore, curMsg, fetched, committed, crashed>>
    /\ UNCHANGED taskVars
    /\ UNCHANGED stopVars
    /\ UNCHANGED <<call, slots>>

\* case <-ctx.Done(): return (deferred wg.Done)
DispatcherCtxDone ==
    /\ ~crashed
    /\ disp = "select"
    /\ ctxDone
    /\ disp' = "exited"
    /\ wg' = wg - 1
    /\ UNCHANGED <<svc, rep, tick, stopChan, ctxDone, semaphore, curMsg, fetched, committed, crashed>>
    /\ UNCHANGED taskVars
    /\ UNCHANGED stopVars
    /\ UNCHANGED <<call, slots>>

\* The ticker's channel is read only by the select at the top of the loop of
\* processMessages.
\* (A dispatcher that would also read it inside ReadMessage and at its send.)
AtSelectOrBlocked == DispatcherAlive

AtSelect == disp = "select"

\* (A commit that covers only the records up to which every Task is done.)
DispatcherCommitCompleted ==
    LET Completed(k) == \A t \in 1..k : tpc[t] = "done"
        CompletedPrefix == CHOOSE k \in 0..fetched :
                              /\ Completed(k)
                              /\ \A j \in (k + 1)..fetched : ~Completed(j)
    IN  /\ ~crashed
        /\ AtSelect
        /\ tick
        /\ tick' = FALSE
        /\ \/ /\ CompletedPrefix > committed
              /\ ~consumerClosed
              /\ committed' = CompletedPrefix
           \/ /\ CompletedPrefix <= committed
              /\ UNCHANGED committed
        /\ UNCHANGED <<svc, disp, rep, stopChan, ctxDone, semaphore, wg, curMsg, fetched, crashed>>
        /\ UNCHANGED taskVars
        /\ UNCHANGED stopVars
        /\ UNCHANGED <<call, slots>>

\* (A loop that returns when Commit fails with another error than ErrNoOffset.)
DispatcherCommitFatal ==
    /\ ~crashed
    /\ AtSelect
    /\ tick
    /\ tick' = FALSE
    /\ \/ /\ fetched > committed
          /\ ~consumerClosed
          /\ committed' = fetched
          /\ UNCHANGED <<disp, wg>>
       \/ /\ fetched = committed
          /\ UNCHANGED <<committed, disp, wg>>
       \/ /\ fetched > committed
          /\ disp' = "exited"
          /\ wg' = wg - 1
          /\ UNCHANGED committed
    /\ UNCHANGED <<svc, rep, stopChan, ctxDone, semaphore, curMsg, fetched, crashed>>
    /\ UNCHANGED taskVars
    /\ UNCHANGED stopVars
    /\ UNCHANGED <<call, slots>>

\* case <-commitTicker.C: s.consumer.Commit() commits the consumed position,
\* or finds nothing to commit (ErrNoOffset), or fails (logged as a warning).
\* Every error Commit returns is a kafkalib.Error, which is what the
\* assertion err.(kafkalib.Error) expects.
DispatcherCommit ==
    /\ ~crashed
    /\ AtSelect
    /\ tick
    /\ tick' = FALSE
    /\ \/ /\ fetched > committed
          /\ ~consumerClosed
          /\ committed' = fetched
       \/ /\ fetched = committed
          /\ UNCHANGED committed
       \/ /\ fetched > committed
          /\ UNCHANGED committed
    /\ UNCHANGED <<svc, disp, rep, stopChan, ctxDone, semaphore, wg, curMsg, fetched, crashed>>
    /\ UNCHANGED taskVars
    /\ UNCHANGED stopVars
    /\ UNCHANGED <<call, slots>>

\* default: taken only when no other case of the select is ready; the
\* dispatcher calls s.consumer.ReadMessage(ProcessingTimeout).
\* (A select without the case <-s.stopChan.)
NoCaseReadyButStop == ~ctxDone /\ ~tick

NoCaseReady == stopChan = "open" /\ ~ctxDone /\ ~tick

DispatcherRead ==
    /\ ~crashed
    /\ disp = "select"
    /\ NoCaseReady
    /\ disp' = "reading"
    /\ UNCHANGED <<svc, rep, tick, stopChan, ctxDone, semaphore, wg, curMsg, fetched, committed, crashed>>
    /\ UNCHANGED taskVars
    /\ UNCHANGED stopVars
    /\ UNCHANGED <<call, slots>>

\* (A loop that returns on a failed ReadMessage.)
ReadReturnAbortsOnError ==
    /\ ~crashed
    /\ disp = "reading"
    /\ \/ /\ disp' = "exited"
          /\ wg' = wg - 1
          /\ UNCHANGED <<curMsg, fetched>>
       \/ /\ ~consumerClosed
          /\ fetched < MaxRecords
          /\ \E r \in 1..Len(PipelineRecords) : curMsg' = r
          /\ fetched' = fetched + 1
          /\ disp' = "acquire"
          /\ UNCHANGED wg
    /\ UNCHANGED <<svc, rep, tick, stopChan, ctxDone, semaphore, committed, crashed>>
    /\ UNCHANGED taskVars
    /\ UNCHANGED stopVars
    /\ UNCHANGED <<call, slots>>

\* (A fetch that takes two records off the topic and keeps the second.)
ReadReturnSkipsRecord ==
    /\ ~crashed
    /\ disp = "reading"
    /\ \/ /\ disp' = "select"
          /\ UNCHANGED <<curMsg, fetched>>
       \/ /\ ~consumerClosed
          /\ fetched + 1 < MaxRecords
          /\ \E r \in 1..Len(PipelineRecords) : curMsg' = r
          /\ fetched' = fetched + 2
          /\ disp' = "acquire"
    /\ UNCHANGED <<svc, rep, tick, stopChan, ctxDone, semaphore, wg, committed, crashed>>
    /\ UNCHANGED taskVars
    /\ UNCHANGED stopVars
    /\ UNCHANGED <<call, slots>>

\* ReadMessage returns a timeout or another error (continue), or a record.
ReadReturn ==
    /\ ~crashed
    /\ disp = "reading"
    /\ \/ /\ disp' = "select"
          /\ UNCHANGED <<curMsg, fetched>>
       \/ /\ ~consumerClosed
          /\ fetched < MaxRecords
          /\ \E r \in 1..Len(PipelineRecords) : curMsg' = r
          /\ fetched' = fetched + 1
          /\ disp' = "acquire"
    /\ UNCHANGED <<svc, rep, tick, stopChan, ctxDone, semaphore, wg, committed, crashed>>
    /\ UNCHANGED taskVars
    /\ UNCHANGED stopVars
    /\ UNCHANGED <<call, slots>>

\* semaphore := make(chan bool, MaxConcurrentMessages): a send proceeds when
\* the channel is not full and blocks otherwise.
\* (A channel with one slot too many.)
SlotFreeOffByOne == semaphore <= slots

SlotFree == semaphore < slots

\* (A launch that does not register the Task with the wait group.)
AcquireNoWgAdd ==
    /\ ~crashed
    /\ disp = "acquire"
    /\ SlotFree
    /\ semaphore' = semaphore + 1
    /\ tpc' = [tpc EXCEPT ![fetched] = "launched"]
    /\ tmsg' = [tmsg EXCEPT ![fetched] = curMsg]
    /\ curMsg' = 0
    /\ disp' = "select"
    /\ UNCHANGED <<svc, rep, tick, stopChan, ctxDone, wg, fetched, committed, crashed>>
    /\ UNCHANGED <<tcid, tpanic, metrics, dest>>
    /\ UNCHANGED stopVars
    /\ UNCHANGED <<call, slots>>

\* semaphore <- true; s.wg.Add(1); go func(msg) {...}(msg)
Acquire ==
    /\ ~crashed
    /\ disp = "acquire"
    /\ SlotFree
    /\ semaphore' = semaphore + 1
    /\ wg' = wg + 1
    /\ tpc' = [tpc EXCEPT ![fetched] = "launched"]
    /\ tmsg' = [tmsg EXCEPT ![fetched] = curMsg]
    /\ curMsg' = 0
    /\ disp' = "select"
    /\ UNCHANGED <<svc, rep, tick, stopChan, ctxDone, fetched, committed, crashed>>
    /\ UNCHANGED <<tcid, tpanic, metrics, dest>>
    /\ UNCHANGED stopVars
    /\ UNCHANGED <<call, slots>>

\* -------------------------------------------------------- processMessage

otherVars == <<svc, disp, rep, tick, stopChan, ctxDone, wg, curMsg, fetched, committed>>

\* The record a Task processes (kafkaMsg).
TaskRecord(t) == PipelineRecords[tmsg[t]]

\* (A Task that resolves its client identifier from its record.)
TaskClientIDFromRecord(t) == extractClientID(TaskRecord(t))

\* clientID := s.config.ClientID
TaskClientID(t) == ConfigClientID

\* The client identifiers a Task can pass to TransformMessage.
ClientIDs ==
    {ConfigClientID} \cup {extractClientID(PipelineRecords[r]) : r \in 1..Len(PipelineRecords)}

\* How TransformMessage(kafkaMsg.Value, clientID) ends for each record of the
\* stream and each client identifier: "ok", "error" or "panic".
TransformOutcomes ==
    [r \in 1..Len(PipelineRecords) |->
        [c \in ClientIDs |-> TransformMessage(PipelineRecords[r].Value, c).kind]]

\* transformed, err := transformer.TransformMessage(kafkaMsg.Value, clientID)
TransformKind(t) == TransformOutcomes[tmsg[t]][TaskClientID(t)]

\* TransformMessage returns an error: IncrementFailed(); return
TransformError(t) ==
    /\ TransformKind(t) = "error"
    /\ metrics' = IncrementFailed(IncrementReceived(metrics))
    /\ tpc' = [tpc EXCEPT ![t] = "ended"]
    /\ tmsg' = [tmsg EXCEPT ![t] = 0]
    /\ UNCHANGED tpanic

\* TransformMessage panics: the goroutine unwinds, its deferred calls run.
TransformPanic(t) ==
    /\ TransformKind(t) = "panic"
    /\ metrics' = IncrementReceived(metrics)
    /\ tpc' = [tpc EXCEPT ![t] = "ended"]
    /\ tmsg' = [tmsg EXCEPT ![t] = 0]
    /\ tpanic' = [tpanic EXCEPT ![t] = TRUE]

\* IncrementTransformed(); json.Marshal returns an error: IncrementFailed(); return
MarshalError(t) ==
    /\ TransformKind(t) = "ok"
    /\ metrics' = IncrementFailed(IncrementTransformed(IncrementReceived(metrics)))
    /\ tpc' = [tpc EXCEPT ![t] = "ended"]
    /\ tmsg' = [tmsg EXCEPT ![t] = 0]
    /\ UNCHANGED tpanic

\* IncrementTransformed(); json.Marshal succeeds; publishMessage is called.
Transformed(t) ==
    /\ TransformKind(t) = "ok"
    /\ metrics' = IncrementTransformed(IncrementReceived(metrics))
    /\ tpc' = [tpc EXCEPT ![t] = "publish"]
    /\ UNCHANGED tmsg
    /\ UNCHANGED tpanic

\* processMessage up to the call of publishMessage: startTime := time.Now();
\* clientID := s.config.ClientID; IncrementReceived(); then TransformMessage
\* and json.Marshal.  kafkaMsg is gone when processMessage returns.
TaskTransform(t) ==
    /\ ~crashed
    /\ tpc[t] = "launched"
    /\ tcid' = [tcid EXCEPT ![t] = TaskClientID(t)]
    /\ \/ TransformError(t)
       \/ TransformPanic(t)
       \/ MarshalError(t)
       \/ Transformed(t)
    /\ UNCHANGED <<dest, semaphore, crashed>>
    /\ UNCHANGED otherVars
    /\ UNCHANGED stopVars
    /\ UNCHANGED <<call, slots>>

\* The kafkalib.Message publishMessage(clientID, data) produces; task names
\* the record it was made from.
PublishedMessage(t) == [task |-> t, Key |-> tcid[t], client_id |-> tcid[t]]

\* (A failed publish that writes the record to the destination all the same.)
ProduceErrorDeadLetter(t) ==
    /\ metrics' = IncrementFailed(metrics)
    /\ dest' = Append(dest, PublishedMessage(t))

\* s.producer.Produce(...) returns an error: publishMessage returns it and
\* processMessage calls IncrementFailed().
ProduceError(t) ==
    /\ metrics' = IncrementFailed(metrics)
    /\ UNCHANGED dest

\* Produce queues the message and s.producer.Flush(5000) returns 0: the
\* message is delivered; publishMessage returns nil and processMessage calls
\* IncrementPublished() and AddProcessingTime().
FlushDelivered(t) ==
    /\ ~producerClosed
    /\ dest' = Append(dest, PublishedMessage(t))
    /\ metrics' = AddProcessingTime(IncrementPublished(metrics), TaskDuration)

\* Produce queues the message and s.producer.Flush(5000) returns the number
\* of messages still outstanding after 5 s, which is logged; publishMessage
\* returns nil all the same and processMessage calls IncrementPublished() and
\* AddProcessingTime().
FlushTimeout(t) ==
    /\ ~producerClosed
    /\ metrics' = AddProcessingTime(IncrementPublished(metrics), TaskDuration)
    /\ UNCHANGED dest

\* publishMessage and the rest of processMessage.
TaskPublish(t) ==
    /\ ~crashed
    /\ tpc[t] = "publish"
    /\ \/ ProduceError(t)
       \/ FlushDelivered(t)
       \/ FlushTimeout(t)
    /\ tpc' = [tpc EXCEPT ![t] = "ended"]
    /\ tmsg' = [tmsg EXCEPT ![t] = 0]
    /\ UNCHANGED <<tcid, tpanic, semaphore, crashed>>
    /\ UNCHANGED otherVars
    /\ UNCHANGED stopVars
    /\ UNCHANGED <<call, slots>>

\* A release that is not deferred: a panic in processMessage skips it.
TaskReleaseNotDeferred(t) ==
    /\ ~crashed
    /\ tpc[t] = "ended"
    /\ semaphore' = IF tpanic[t] THEN semaphore ELSE semaphore - 1
    /\ tpc' = [tpc EXCEPT ![t] = "released"]
    /\ UNCHANGED <<tmsg, tcid, tpanic, metrics, dest, crashed>>
    /\ UNCHANGED otherVars
    /\ UNCHANGED stopVars
    /\ UNCHANGED <<call, slots>>

\* defer func() { <-semaphore }()  (runs first: deferred last)
TaskRelease(t) ==
    /\ ~crashed
    /\ tpc[t] = "ended"
    /\ semaphore' = semaphore - 1
    /\ tpc' = [tpc EXCEPT ![t] = "released"]
    /\ UNCHANGED <<tmsg, tcid, tpanic, metrics, dest, crashed>>
    /\ UNCHANGED otherVars
    /\ UNCHANGED stopVars
    /\ UNCHANGED <<call, slots>>

\* defer s.wg.Done(); the goroutine ends, and a panic that unwound it now
\* ends the process.
TaskDone(t) ==
    /\ ~crashed
    /\ tpc[t] = "released"
    /\ wg' = wg - 1
    /\ tpc' = [tpc EXCEPT ![t] = "done"]
    /\ tcid' = [tcid EXCEPT ![t] = ""]
    /\ UNCHANGED tmsg
    /\ tpanic' = [tpanic EXCEPT ![t] = FALSE]
    /\ crashed' = tpanic[t]
    /\ UNCHANGED <<svc, disp, rep, tick, stopChan, ctxDone, curMsg, fetched, committed, semaphore>>
    /\ UNCHANGED <<metrics, dest>>
    /\ UNCHANGED stopVars
    /\ UNCHANGED <<call, slots>>

\* --------------------------------------------------------- reportMetrics

\* GetSnapshot: the counters and the derived average.
GetSnapshot(m) ==
    [received |-> m.MessagesReceived, transformed |-> m.MessagesTransformed,
     published |-> m.MessagesPublished, failed |-> m.MessagesFailed,
     avg_time |-> IF m.MessagesTransformed > 0 THEN m.TotalProcessingTime \div m.MessagesTransformed ELSE 0,
     total_time |-> m.TotalProcessingTime]

\* (A reporter that returns on the stop signal only.)
ReportExitOnStopOnly ==
    /\ ~crashed
    /\ rep = "loop"
    /\ stopChan = "closed"
    /\ rep' = "exited"
    /\ wg' = wg - 1
    /\ UNCHANGED <<svc, disp, tick, stopChan, ctxDone, semaphore, curMsg, fetched, committed, crashed>>
    /\ UNCHANGED taskVars
    /\ UNCHANGED stopVars
    /\ UNCHANGED <<call, slots>>

\* case <-s.stopChan / case <-ctx.Done(): return (deferred wg.Done)
ReportExit ==
    /\ ~crashed
    /\ rep = "loop"
    /\ \/ stopChan = "closed"
       \/ ctxDone
    /\ rep' = "exited"
    /\ wg' = wg - 1
    /\ UNCHANGED <<svc, disp, tick, stopChan, ctxDone, semaphore, curMsg, fetched, committed, crashed>>
    /\ UNCHANGED taskVars
    /\ UNCHANGED stopVars
    /\ UNCHANGED <<call, slots>>

\* case <-ticker.C: printMetrics() logs a snapshot and changes nothing.
ReportTick ==
    /\ ~crashed
    /\ rep = "loop"
    /\ GetSnapshot(metrics).received >= 0
    /\ UNCHANGED vars

\* ------------------------------------------------------------------ Stop

\* (A Stop that waits without closing stopChan.)
StopCallNoSignal ==
    /\ ~crashed
    /\ svc = "running"
    /\ stop = "none"
    /\ stop' = "select"
    /\ UNCHANGED <<svc, disp, rep, tick, stopChan, ctxDone, semaphore, wg, curMsg, fetched, committed, crashed>>
    /\ UNCHANGED taskVars
    /\ UNCHANGED <<stopBranch, consumerClosed, producerClosed, warned, stopErr>>
    /\ UNCHANGED <<call, slots>>

\* Stop: close(s.stopChan); go func() { s.wg.Wait(); done <- true }()
StopCall ==
    /\ ~crashed
    /\ svc = "running"
    /\ stop = "none"
    /\ stopChan' = "closed"
    /\ stop' = "select"
    /\ UNCHANGED <<svc, disp, rep, tick, ctxDone, semaphore, wg, curMsg, fetched, committed, crashed>>
    /\ UNCHANGED taskVars
    /\ UNCHANGED <<stopBranch, consumerClosed, producerClosed, warned, stopErr>>
    /\ UNCHANGED <<call, slots>>

\* s.wg.Wait() has returned (the counter is zero) and Stop receives from
\* done: case <-done: "All goroutines stopped"
StopDone ==
    /\ ~crashed
    /\ stop = "select"
    /\ wg = 0
    /\ stopBranch' = "done"
    /\ stop' = "closing"
    /\ UNCHANGED <<svc, disp, rep, tick, stopChan, ctxDone, semaphore, wg, curMsg, fetched, committed, crashed>>
    /\ UNCHANGED taskVars
    /\ UNCHANGED <<consumerClosed, producerClosed, warned, stopErr>>
    /\ UNCHANGED <<call, slots>>

\* (A Stop that returns the context's error at the deadline and leaves the
\* handles open.)
StopTimeoutReturnsError ==
    /\ ~crashed
    /\ stop = "select"
    /\ stopBranch' = "timeout"
    /\ warned' = TRUE
    /\ stopErr' = "deadline exceeded"
    /\ stop' = "returned"
    /\ UNCHANGED <<svc, disp, rep, tick, stopChan, ctxDone, semaphore, wg, curMsg, fetched, committed, crashed>>
    /\ UNCHANGED taskVars
    /\ UNCHANGED <<consumerClosed, producerClosed>>
    /\ UNCHANGED <<call, slots>>

\* The deadline of the context given to Stop elapses:
\* case <-ctx.Done(): "Shutdown timeout exceeded" (a warning)
StopTimeout ==
    /\ ~crashed
    /\ stop = "select"
    /\ stopBranch' = "timeout"
    /\ warned' = TRUE
    /\ stop' = "closing"
    /\ UNCHANGED <<svc, disp, rep, tick, stopChan, ctxDone, semaphore, wg, curMsg, fetched, committed, crashed>>
    /\ UNCHANGED taskVars
    /\ UNCHANGED <<consumerClosed, producerClosed, stopErr>>
    /\ UNCHANGED <<call, slots>>

\* s.consumer.Close(); s.producer.Close(); printMetrics(); return nil
StopClose ==
    /\ ~crashed
    /\ stop = "closing"
    /\ consumerClosed' = TRUE
    /\ producerClosed' = TRUE
    /\ stopErr' = "nil"
    /\ stop' = "returned"
    /\ UNCHANGED <<svc, disp, rep, tick, stopChan, ctxDone, semaphore, wg, curMsg, fetched, committed, crashed>>
    /\ UNCHANGED taskVars
    /\ UNCHANGED <<stopBranch, warned>>
    /\ UNCHANGED <<call, slots>>

\* ------------------------------------------------------ the specification

Next ==
    \/ Start
    \/ CancelCtx
    \/ TickFire
    \/ DispatcherStop
    \/ DispatcherCtxDone
    \/ DispatcherCommit
    \/ DispatcherRead
    \/ ReadReturn
    \/ Acquire
    \/ \E t \in Tasks : TaskTransform(t)
    \/ \E t \in Tasks : TaskPublish(t)
    \/ \E t \in Tasks : TaskRelease(t)
    \/ \E t \in Tasks : TaskDone(t)
    \/ ReportExit
    \/ ReportTick
    \/ StopCall
    \/ StopDone
    \/ StopTimeout
    \/ StopClose

Spec == Init /\ [][Next]_vars

SpecOrder == InitOrder /\ [][Next]_vars

\* The scheduler runs every goroutine that can take a step: the dispatcher,
\* the reporter and the goroutine of Stop. A select with a ready case takes
\* it; ReadMessage returns within its timeout. No fairness is assumed of the
\* Tasks, whose progress depends on the producer, of the callers of Start and
\* Stop, of the cancellation of the context given to Start, of the commit
\* ticker, or of the deadline of Stop.
Fairness ==
    /\ WF_vars(DispatcherStop)
    /\ WF_vars(DispatcherCtxDone)
    /\ WF_vars(DispatcherRead)
    /\ WF_vars(ReadReturn)
    /\ WF_vars(Acquire)
    /\ WF_vars(ReportExit)
    /\ WF_vars(StopDone)
    /\ WF_vars(StopClose)

SpecDrain == Init /\ [][Next]_vars /\ Fairness

\* ------------------------------------- the transformations called on their own

\* The inbound records the transformations are applied to: every status code
\* up to MaxStatusCode, an absent one and one that is no number; records with
\* or without their request fields, with or without a response object; and a
\* buffer that does not decode.
StatusCodes == {Num(k) : k \in 0..MaxStatusCode} \cup {Absent, Other, Str("404")}

StatusRecords ==
    {[Complete EXCEPT !.response.statusCode = code] : code \in StatusCodes}
    \cup {[Complete EXCEPT !.request = req, !.response = resp] :
            req \in {Complete.request, Incomplete.request, NoRequest},
            resp \in {[Complete.response EXCEPT !.statusCode = code] : code \in {Num(404), Num(777), Absent}}
                      \cup {NoResponse}}

\* n written with w digits.
RECURSIVE Pad(_, _)
Pad(n, w) == IF w = 0 THEN <<>> ELSE Append(Pad(n \div 10, w - 1), DigitOf(n % 10))

\* The timestamps: every small number of milliseconds up to MaxDateTime, and
\* thirteen-digit numbers of milliseconds whose seconds lie around the
\* present, around 2^31, around 2^32 and beyond.
BigSeconds ==
    {[hi |-> 17000, lo |-> 0], [hi |-> 21474, lo |-> 83647], TwoTo31, [hi |-> 42949, lo |-> 67295],
     TwoTo32, ThreeTimesTwoTo31, [hi |-> 99999, lo |-> 99999]}

DateTimes ==
    {Num(k) : k \in 0..MaxDateTime}
    \cup {BigNum(FormatNat(sec.hi) \o Pad(sec.lo, 5) \o Pad(ms, 3)) : sec \in BigSeconds, ms \in {0, 1, 999}}
    \cup {Num(-1), Num(-1000), Num(-1999), Absent, Other, Str("1700000000000")}

TimeRecords ==
    {[Complete EXCEPT !.info.dateTime = dateTime] : dateTime \in DateTimes}
    \cup {[Complete EXCEPT !.info = NoInfo]}

\* The encoded headers: none, text that is no JSON, an object with two
\* names that differ in every way and one with two names that differ only in
\* letter case.
EncodedHeaders ==
    {EmptyText, InvalidText,
     JSONText(JObject(<<[name |-> <<"X", "-", "A">>, value |-> JString("v1")],
                        [name |-> <<"x", "-", "b">>, value |-> JList(<<JString("v2"), JString("v3")>>)]>>)),
     JSONText(JObject(<<[name |-> <<"X", "-", "A">>, value |-> JString("v1")],
                        [name |-> <<"x", "-", "a">>, value |-> JString("v2")]>>))}

HeaderRecords ==
    {[Complete EXCEPT !.request.headers = Str(req), !.response.headers = Str(resp)] :
        req \in EncodedHeaders, resp \in EncodedHeaders}

\* The URLs: none, bare paths, and URLs with a host, with and without a
\* path, a query and a port.
URLs ==
    {<<>>,
     <<"/", "a", "/", "b", "/", "c">>,
     <<"/", "a">>,
     <<"a", "/", "b", "/", "c">>,
     <<"h", "t", "t", "p", ":", "/", "/", "h">>,
     <<"h", "t", "t", "p", ":", "/", "/", "h", "/">>,
     <<"h", "t", "t", "p", ":", "/", "/", "h", "?", "x">>,
     <<"h", "t", "t", "p", ":", "/", "/", "h", ":", "8", "0", "/", "v", "1">>,
     <<"h", "t", "t", "p", ":", "/", "/", "h", "/", "a", "/", "b", "/", "c">>,
     <<"h", "t", "t", "p", ":", "/", "a", "/", "b">>}

URLRecords ==
    {[Complete EXCEPT !.request.url = url] : url \in {Chars(u) : u \in URLs} \cup {Absent, Other}}

InboundRecords == StatusRecords \cup TimeRecords \cup HeaderRecords \cup URLRecords \cup {Garbage}

NotCalled == [called |-> FALSE]

Returned(result) == [called |-> TRUE, kind |-> result.kind, output |-> result.output]

\* The keys of the flat record, sorted.
FlatKeys ==
    <<"akto_account_id", "contentType", "ip", "method", "path", "requestHeaders", "requestPayload",
      "responseHeaders", "responsePayload", "responseTime", "source", "status", "statusCode", "time", "type">>

\* Two of the keys at which an iteration over the map can start.
RangeStarts == {1, 8}

\* A serialisation that writes the keys as a range over the map visits them,
\* from the key the iteration starts at.
MarshalInRangeOrder(output, start) ==
    [i \in 1..Len(FlatKeys) |->
        LET key == FlatKeys[((start + i - 2) % Len(FlatKeys)) + 1] IN <<key, output[key]>>]

\* json.Marshal(transformed) on a map[string]interface{}: the members in the
\* sorted order of the keys, wherever an iteration over the map would start.
Marshal(output, start) == [i \in 1..Len(FlatKeys) |-> <<FlatKeys[i], output[FlatKeys[i]]>>]

\* What TransformMessage returned, with the bytes processMessage makes of it.
Serialized(result, start) ==
    [called |-> TRUE, kind |-> result.kind, output |-> result.output,
     bytes |-> IF result.kind = "ok" THEN Marshal(result.output, start) ELSE <<>>]

InitTransform ==
    /\ ServiceInit
    /\ \E data \in InboundRecords :
          call = [fn |-> "transform", data |-> data, flat |-> NotCalled, flat2 |-> NotCalled,
                  proto |-> NotCalled, proto2 |-> NotCalled, protoFromFlat |-> NotCalled]

\* flat, err := TransformMessage(data, clientID); json.Marshal(flat): a first
\* and a second call on the same bytes, in any order with the other calls.
CallTransformMessage ==
    /\ call.fn = "transform"
    /\ ~call.flat2.called
    /\ \E start \in RangeStarts :
          call' = [call EXCEPT ![IF call.flat.called THEN "flat2" ELSE "flat"] =
                      Serialized(TransformMessage(call.data, ConfigClientID), start)]
    /\ UNCHANGED svcVars

\* proto, err := TransformToProto(data, clientID): a first and a second call
\* on the same bytes.
CallTransformToProto ==
    /\ call.fn = "transform"
    /\ ~call.proto2.called
    /\ \E reqLast \in HeaderOrders(getNestedString(call.data.request, call.data.request.headers, EmptyText)),
          respLast \in HeaderOrders(getNestedString(call.data.response, call.data.response.headers, EmptyText)) :
          call' = [call EXCEPT ![IF call.proto.called THEN "proto2" ELSE "proto"] =
                      Returned(TransformToProto(call.data, ConfigClientID, reqLast, respLast))]
    /\ UNCHANGED svcVars

\* proto, err := TransformToProtoFromFlat(flat), on the map TransformMessage
\* returned.
CallTransformToProtoFromFlat ==
    /\ call.fn = "transform"
    /\ call.flat.called
    /\ call.flat.kind = "ok"
    /\ ~call.protoFromFlat.called
    /\ \E reqLast \in HeaderOrders(call.flat.output.requestHeaders),
          respLast \in HeaderOrders(call.flat.output.responseHeaders) :
          call' = [call EXCEPT !.protoFromFlat =
                      Returned([kind |-> "ok",
                                output |-> TransformToProtoFromFlat(FlatMap(call.flat.output), reqLast, respLast)])]
    /\ UNCHANGED svcVars

NextTransform ==
    \/ CallTransformMessage
    \/ CallTransformToProto
    \/ CallTransformToProtoFromFlat

SpecTransform == InitTransform /\ [][NextTransform]_vars

\* The flat records TransformToProtoFromFlat is applied to on its own: each
\* of method, requestHeaders, statusCode and time present as a string,
\* present with another type, or missing; the remaining keys all present or
\* all missing.  The record with every key missing is the empty map.
FlatRecords ==
    {[method |-> method, requestHeaders |-> headers, statusCode |-> statusCode, time |-> time,
      path |-> IF rest THEN Chars(<<"/", "v", "1">>) ELSE Absent,
      type |-> IF rest THEN Str("HTTP/1.1") ELSE Absent,
      requestPayload |-> IF rest THEN Str("") ELSE Absent,
      responseHeaders |-> IF rest THEN Str(EmptyText) ELSE Absent,
      responsePayload |-> IF rest THEN Str("ok") ELSE Absent,
      ip |-> IF rest THEN Str("1.2.3.4") ELSE Absent,
      status |-> IF rest THEN Str("OK") ELSE Absent,
      akto_account_id |-> IF rest THEN Str(ConfigClientID) ELSE Absent,
      source |-> IF rest THEN Str("MIRRORING") ELSE Absent] :
        method \in {Str("GET"), Num(5), Other, Absent},
        headers \in {Str(JSONText(JObject(<<[name |-> <<"X", "-", "A">>, value |-> JString("v1")]>>))),
                     Str(InvalidText), Num(1), Absent},
        statusCode \in {Chars(<<"2", "0", "0">>), Chars(<<"2", "0", "0", ".", "5">>), Chars(<<"O", "K">>),
                        Chars(<<>>), Num(200), Other, Absent},
        time \in {Chars(<<"1", "7", "0", "0", "0", "0", "0", "0", "0", "0">>),
                  Chars(<<"2", "1", "4", "7", "4", "8", "3", "6", "4", "8">>),
                  Chars(<<"-", "1">>), Chars(<<"1", "2", "a">>), Num(7), Other, Absent},
        rest \in BOOLEAN}

InitFromFlat ==
    /\ ServiceInit
    /\ \E flatData \in FlatRecords :
          call = [fn |-> "fromFlat", flatData |-> flatData, called |-> FALSE, kind |-> "none", output |-> NoProto]

\* payload, err := TransformToProtoFromFlat(flatData)
CallFromFlat ==
    /\ call.fn = "fromFlat"
    /\ ~call.called
    /\ \E reqLast \in HeaderOrders(getString(call.flatData.requestHeaders, EmptyText)),
          respLast \in HeaderOrders(getString(call.flatData.responseHeaders, EmptyText)) :
          call' = [call EXCEPT !.called = TRUE, !.kind = "ok",
                               !.output = TransformToProtoFromFlat(call.flatData, reqLast, respLast)]
    /\ UNCHANGED svcVars

SpecFromFlat == InitFromFlat /\ [][CallFromFlat]_vars

\* The strings extractURI is applied to: every string of at most MaxURLLen
\* characters of URLAlphabet, on its own and after a scheme and a host.
RECURSIVE StringsUpTo(_, _)
StringsUpTo(alphabet, n) ==
    IF n = 0 THEN {<<>>}
    ELSE StringsUpTo(alphabet, n - 1)
         \cup {Append(s, c) : s \in {x \in StringsUpTo(alphabet, n - 1) : Len(x) = n - 1}, c \in alphabet}

URLAlphabet == {"/", "p", "?", "#", "%", "2", ":"}

SchemeAndHost == <<"h", ":", "/", "/", "h">>

URLInputs == {prefix \o tail : prefix \in {<<>>, SchemeAndHost}, tail \in StringsUpTo(URLAlphabet, MaxURLLen)}

InitURI ==
    /\ ServiceInit
    /\ \E fullURL \in URLInputs : call = [fn |-> "extractURI", fullURL |-> fullURL, called |-> FALSE, uri |-> <<>>]

\* uri := extractURI(fullURL)
CallExtractURI ==
    /\ call.fn = "extractURI"
    /\ ~call.called
    /\ call' = [call EXCEPT !.called = TRUE, !.uri = extractURI(call.fullURL)]
    /\ UNCHANGED svcVars

NextURI == CallExtractURI

SpecURI == InitURI /\ [][NextURI]_vars

\* The encoded strings parseHeaders is applied to: the empty string, a
\* string that is no JSON, JSON values that are no object, and every JSON
\* object text of at most MaxHeaderKeys members with the names and the
\* values below.
HeaderNames == {<<"X", "-", "A">>, <<"x", "-", "a">>, <<"x", "-", "b">>}

HeaderValueDocs ==
    {JString("v1"), JList(<<JString("v2"), JString("v3")>>), JList(<<JNumber, JString("v2")>>),
     JList(<<>>), JNumber, JNull}

HeaderMembers == {[name |-> name, value |-> value] : name \in HeaderNames, value \in HeaderValueDocs}

RECURSIVE MembersUpTo(_)
MembersUpTo(n) ==
    IF n = 0 THEN {<<>>}
    ELSE MembersUpTo(n - 1)
         \cup {Append(ms, m) : ms \in {x \in MembersUpTo(n - 1) : Len(x) = n - 1}, m \in HeaderMembers}

HeaderTexts ==
    {EmptyText, InvalidText}
    \cup {JSONText(doc) : doc \in {JNull, JNumber, JString("v1"), JList(<<JString("v1")>>)}}
    \cup {JSONText(JObject(ms)) : ms \in MembersUpTo(MaxHeaderKeys)}

InitHeaders ==
    /\ ServiceInit
    /\ \E headersStr \in HeaderTexts :
          call = [fn |-> "parseHeaders", headersStr |-> headersStr, called |-> FALSE, headers |-> NoHeaders]

\* headers := parseHeaders(headersStr): range headersMap visits the keys in
\* any order.
CallParseHeaders ==
    /\ call.fn = "parseHeaders"
    /\ ~call.called
    /\ \E last \in HeaderOrders(call.headersStr) :
          call' = [call EXCEPT !.called = TRUE, !.headers = parseHeaders(call.headersStr, last)]
    /\ UNCHANGED svcVars

NextHeaders == CallParseHeaders

SpecHeaders == InitHeaders /\ [][NextHeaders]_vars

\* ------------------------------------------------------------------- New
\* New on its own, from the wait that precedes the two client handles to its
\* return. The configuration maps it builds only feed the client library,
\* whose constructors succeed or fail with one of ErrorCauses. Durations are
\* in milliseconds; a producer handle is named by the attempt that made it
\* and 0 is nil.

maxRetries == 5

ErrorCauses == {"invalid configuration", "broker unavailable"}

NoError == [msg |-> "", cause |-> ""]

InitNew ==
    /\ ServiceInit
    /\ call = [fn |-> "New", pc |-> "consumer", consumer |-> "none", producer |-> 0,
               attempt |-> 0, retryDelay |-> 0, slept |-> 5000, tries |-> <<>>,
               err |-> NoError, service |-> FALSE]

\* kafka.NewConsumer(consumerCfg) and the branch of New on its error.
NewConsumer ==
    /\ call.fn = "New"
    /\ call.pc = "consumer"
    /\ \/ call' = [call EXCEPT !.consumer = "open", !.pc = "producer",
                               !.attempt = 1, !.retryDelay = 3000]
       \/ \E cause \in ErrorCauses :
             call' = [call EXCEPT !.err = [msg |-> "failed to create consumer", cause |-> cause],
                                  !.pc = "returned"]
    /\ UNCHANGED svcVars

\* One pass of the loop of NewProducer.
NewProducer ==
    /\ call.fn = "New"
    /\ call.pc = "producer"
    /\ call.attempt <= maxRetries
    /\ \/ call' = [call EXCEPT !.producer = call.attempt,
                               !.tries = Append(call.tries, "ok"),
                               !.pc = "producerReturned"]
       \/ \E cause \in ErrorCauses :
             IF call.attempt < maxRetries
             THEN call' = [call EXCEPT !.tries = Append(call.tries, cause),
                                       !.slept = call.slept + call.retryDelay,
                                       !.retryDelay = (call.retryDelay * 3) \div 2,
                                       !.attempt = call.attempt + 1]
             ELSE call' = [call EXCEPT !.tries = Append(call.tries, cause),
                                       !.err = [msg |-> "failed to create producer after 5 attempts",
                                                cause |-> cause],
                                       !.pc = "producerReturned"]
    /\ UNCHANGED svcVars

\* (A return that leaves the consumer open when no producer was created.)
NewReturnKeepsConsumer ==
    /\ call.fn = "New"
    /\ call.pc = "producerReturned"
    /\ call' = [call EXCEPT !.service = (call.err = NoError), !.pc = "returned"]
    /\ UNCHANGED svcVars

\* New after NewProducer returned: consumer.Close() and no service on an
\* error, the service otherwise.
NewReturn ==
    /\ call.fn = "New"
    /\ call.pc = "producerReturned"
    /\ IF call.err # NoError
       THEN call' = [call EXCEPT !.consumer = "closed", !.pc = "returned"]
       ELSE call' = [call EXCEPT !.service = TRUE, !.pc = "returned"]
    /\ UNCHANGED svcVars

NextNew == NewConsumer \/ NewProducer \/ NewReturn

SpecNew == InitNew /\ [][NextNew]_vars

\* ------------------------------------------------------------ properties

\* Tasks whose goroutine is running processMessage.
InFlight == {t \in Tasks : tpc[t] \in {"launched", "publish"}}

\* Tasks that were launched and have not yet run their deferred release.
HoldingSlot == {t \in Tasks : tpc[t] \in {"launched", "publish", "ended"}}

InPublish == {t \in Tasks : tpc[t] = "publish"}

Launches == \E t \in Tasks : tpc[t] = "none" /\ tpc'[t] # "none"

\* C1: at most MaxConcurrentMessages Tasks are in flight, hence at most that
\* many are in publishMessage, and while that many are in flight no step
\* launches a further Task: the dispatcher stays blocked at its send.
C1_ConcurrencyBudget ==
    /\ [](/\ Cardinality(InFlight) <= MaxConcurrentMessages
          /\ Cardinality(InPublish) <= MaxConcurrentMessages
          /\ (Cardinality(InFlight) = MaxConcurrentMessages /\ disp = "acquire" => ~ENABLED Acquire))
    /\ [][Cardinality(InFlight) = MaxConcurrentMessages => ~Launches]_vars

\* The budget is exhausted by Tasks in flight and the dispatcher holds a
\* further record it cannot dispatch.
C1_Witness ==
    /\ Cardinality(InFlight) = MaxConcurrentMessages
    /\ disp = "acquire"
    /\ curMsg # 0

\* C2: the number of held slots is the number of Tasks launched and not yet
\* through their deferred release, whatever the outcome of processMessage;
\* each step releases at most one slot, and only the deferred release of a
\* Task that holds one does; when no Task is left no slot is held.
C2_SlotPerTask ==
    /\ [](/\ semaphore = Cardinality(HoldingSlot)
          /\ (HoldingSlot = {} => semaphore = 0))
    /\ [][/\ semaphore' >= semaphore - 1
          /\ (semaphore' = semaphore - 1 =>
                \E t \in Tasks : tpc[t] = "ended" /\ tpc'[t] = "released")
          /\ \A t \in Tasks : (tpc[t] = "ended" /\ tpc'[t] # "ended") => semaphore' = semaphore - 1]_vars

\* A Task whose processMessage panicked has released its slot and a Task
\* that ended normally is done, with no slot held any more.
C2_Witness ==
    /\ \E t \in Tasks : tpc[t] = "released" /\ tpanic[t]
    /\ \E t \in Tasks : tpc[t] = "done"
    /\ semaphore = 0

\* C3: for every record that decodes, TransformMessage returns a flat record
\* and no failure, with the empty default for a request.headers or a
\* request.body that is missing or no string.
C3_AbsentFieldsDefault ==
    \A t \in Tasks :
        (tpc[t] = "launched" /\ TaskRecord(t).Value.valid) =>
            LET data == TaskRecord(t).Value
                res == TransformMessage(data, ConfigClientID)
            IN  /\ res.kind = "ok"
                /\ (data.request.headers.t # "string" => res.output.requestHeaders = EmptyText)
                /\ (data.request.body.t # "string" => res.output.requestPayload = "")

\* C4: no error of a Task ends the pipeline: as long as the service was
\* started and neither stopped nor cancelled, the process is alive and the
\* fetch loop is running.
C4_TaskErrorsStayLocal ==
    (svc = "running" /\ stopChan = "open" /\ ~ctxDone) => (~crashed /\ DispatcherAlive)

\* C5 as stated: the client identifier a Task uses is the one
\* extractClientID resolves from its record: the client_id header, else the
\* payload's account id, else the default.
C5_ClientIdPriority ==
    [][\A t \in Tasks :
          (tpc[t] = "launched" /\ tpc'[t] # "launched") => tcid'[t] = extractClientID(TaskRecord(t))]_vars

\* C5: the client identifier a Task uses, and the key and client_id header of
\* every message it publishes, is the configured one (s.config.ClientID),
\* whatever its record's client_id header and akto_account_id say.
C5_ClientIdFromConfig ==
    /\ [](/\ \A t \in Tasks : tpc[t] = "publish" => tcid[t] = ConfigClientID
          /\ \A i \in 1..Len(dest) :
                dest[i].Key = ConfigClientID /\ dest[i].client_id = ConfigClientID)
    /\ [][\A t \in Tasks :
            (tpc[t] = "launched" /\ tpc'[t] # "launched") => tcid'[t] = ConfigClientID]_vars

\* A Task is publishing under the configured identifier a record whose
\* client_id header names another client.
C5_Witness ==
    \E t \in Tasks :
        /\ tpc[t] = "publish"
        /\ tcid[t] = ConfigClientID
        /\ extractClientID(TaskRecord(t)) = "acct-42"
        /\ ConfigClientID # "acct-42"

\* C6: a publish that does not end with a confirmed delivery (Produce failed,
\* or Flush reported messages outstanding) adds one to the failed counter and
\* leaves the published counter alone.
C6_PublishFailureCounted ==
    [][\A t \in Tasks :
          (TaskPublish(t) /\ ~FlushDelivered(t)) =>
              /\ metrics'.MessagesFailed = metrics.MessagesFailed + 1
              /\ metrics'.MessagesPublished = metrics.MessagesPublished]_vars

\* The dispatcher is inside ReadMessage or blocked at its send on semaphore.
DispatcherBusy == disp \in {"reading", "acquire"}

\* C7 as stated: a commit tick that is due while the dispatcher is inside a
\* fetch or blocked acquiring a slot can be acted on there, without the fetch
\* returning or a slot being released.
C7_CommitIndependent ==
    (~crashed /\ tick /\ DispatcherBusy) => ENABLED DispatcherCommit

\* C7: a commit tick that is due while the dispatcher is inside a fetch or
\* blocked acquiring a slot stays pending and is not acted on there; it is
\* consumed, and the commit requested, only by the select at the top of the
\* loop, where a pending tick can always be acted on.
C7_CommitAtSelectOnly ==
    /\ [](/\ (tick /\ DispatcherBusy) => ~ENABLED DispatcherCommit
          /\ (~crashed /\ tick /\ disp = "select") => ENABLED DispatcherCommit)
    /\ [][/\ (tick /\ ~tick') => (disp = "select" /\ disp' = "select")
          /\ (tick /\ DispatcherBusy) => tick'
          /\ committed' # committed => (tick /\ disp = "select")]_vars

\* A tick is due while the dispatcher is blocked at its send with every slot
\* held, and while it is inside ReadMessage.
C7_Witness ==
    /\ tick
    /\ disp = "acquire"
    /\ semaphore = MaxConcurrentMessages
    /\ fetched > committed

\* C8 as stated: after stopChan is closed no further record is dispatched,
\* and the fetch loop can exit whatever the Tasks do.
C8_NoDispatchAfterStop ==
    /\ [](~crashed /\ stopChan = "closed" /\ DispatcherAlive =>
             ENABLED (DispatcherStop \/ DispatcherCommit \/ ReadReturn \/ Acquire))
    /\ [][stopChan = "closed" => ~Launches]_vars

\* C8: after stopChan is closed the dispatcher starts no new fetch; a fetch in
\* progress when it is closed may still return a record, which is dispatched
\* once a slot is free; back at its select the dispatcher can exit and never
\* fetches or dispatches again; the reporter can exit; closing stopChan
\* changes no Task, and a Task that is publishing or ending can go on.
C8_StopAtSelect ==
    /\ [](/\ (~crashed /\ stopChan = "closed" /\ disp = "select") =>
                (ENABLED DispatcherStop /\ ~ENABLED DispatcherRead)
          /\ (~crashed /\ stopChan = "closed" /\ rep = "loop") => ENABLED ReportExit
          /\ \A t \in Tasks :
                (~crashed /\ stopChan = "closed") =>
                    /\ tpc[t] = "publish" => ENABLED TaskPublish(t)
                    /\ tpc[t] = "ended" => ENABLED TaskRelease(t)
                    /\ tpc[t] = "released" => ENABLED TaskDone(t))
    /\ [][/\ stopChan = "closed" => ~(disp # "reading" /\ disp' = "reading")
          /\ (stopChan = "closed" /\ disp \in {"select", "exited"}) =>
                (disp' \in {"select", "exited"} /\ fetched' = fetched /\ ~Launches)
          /\ (stopChan = "open" /\ stopChan' = "closed") => UNCHANGED taskVars]_vars

\* stopChan is closed, the dispatcher holds a record whose fetch was in
\* progress, and it waits for a Task in flight to release a slot.
C8_Witness ==
    /\ stopChan = "closed"
    /\ disp = "acquire"
    /\ semaphore = MaxConcurrentMessages
    /\ InFlight # {}

\* C9: Stop's deadline branch can be taken whatever the Tasks in flight do
\* and logs a warning; after either branch Stop closes the consumer and the
\* producer and returns nil.
C9_StopReturnsAtDeadline ==
    /\ stop = "returned" => (consumerClosed /\ producerClosed /\ stopErr = "nil")
    /\ stopBranch = "timeout" => warned
    /\ (~crashed /\ stop = "select") => ENABLED StopTimeout
    /\ (~crashed /\ stop = "closing") => ENABLED StopClose

\* Stop has returned through its deadline branch while a Task is in flight.
C9_Witness ==
    /\ stop = "returned"
    /\ stopBranch = "timeout"
    /\ warned
    /\ InFlight # {}

\* C10: once Stop has taken its "All goroutines stopped" branch, the fetch
\* loop and the reporter have exited, every launched Task is done, no slot is
\* held, and no step launches a Task; handles closed without the deadline
\* branch are closed in such a state.
C10_DrainedBeforeClose ==
    /\ [](/\ stopBranch = "done" =>
                /\ InFlight = {} /\ HoldingSlot = {} /\ semaphore = 0
                /\ \A t \in Tasks : tpc[t] \in {"none", "done"}
                /\ disp = "exited" /\ rep = "exited" /\ wg = 0
          /\ (consumerClosed /\ stopBranch # "timeout") => stopBranch = "done")
    /\ [][stopBranch = "done" => ~Launches]_vars

\* Stop has returned through its "All goroutines stopped" branch after a
\* Task was launched and finished.
C10_Witness ==
    /\ stopBranch = "done"
    /\ stop = "returned"
    /\ \E t \in Tasks : tpc[t] = "done"

\* C11: the consumer is used by one goroutine at a time: no step closes it
\* while the dispatcher is inside ReadMessage, and ReadMessage never runs on
\* a consumer that was closed under it.
C11_ConsumerExclusive ==
    /\ [](~(consumerClosed /\ disp = "reading"))
    /\ [][(~consumerClosed /\ consumerClosed') => disp # "reading"]_vars

\* C12: a Start whose subscription failed has returned the error with no
\* goroutine launched, and nothing is launched later; a Start whose
\* subscription succeeded has launched the fetch loop and the reporter and
\* returns nil in that same step, before any record is fetched or processed.
C12_StartSubscribes ==
    /\ [](svc = "failed" =>
            /\ disp = "none" /\ rep = "none" /\ wg = 0
            /\ fetched = 0 /\ \A t \in Tasks : tpc[t] = "none")
    /\ [][/\ (svc = "created" /\ svc' = "running") =>
                /\ disp' = "select" /\ rep' = "loop" /\ wg' = 2
                /\ fetched' = 0 /\ \A t \in Tasks : tpc'[t] = "none"
                /\ metrics'.MessagesReceived = 0
          /\ (disp = "none" /\ disp' # "none") => (svc = "created" /\ svc' = "running")
          /\ (rep = "none" /\ rep' # "none") => (svc = "created" /\ svc' = "running")]_vars

\* Start has returned the subscription error.
C12_Witness == svc = "failed" /\ disp = "none" /\ rep = "none"

\* The lifecycle state of the pipeline, read off the service: Created until
\* Start has subscribed and launched its goroutines (Subscribed is passed
\* inside Start), Running until Stop closes stopChan, Draining until Stop
\* returns, then Stopped.
Phase ==
    IF stop = "returned" THEN "Stopped"
    ELSE IF stopChan = "closed" THEN "Draining"
    ELSE IF svc = "running" THEN "Running"
    ELSE "Created"

PhaseRank ==
    CASE Phase = "Created" -> 0
      [] Phase = "Running" -> 1
      [] Phase = "Draining" -> 2
      [] Phase = "Stopped" -> 3

\* The lifecycle never goes back and skips no state: Running is entered only
\* by a Start whose subscription succeeded, Draining only from Running, and
\* Stopped only from Draining.
ForwardOnly ==
    /\ PhaseRank' >= PhaseRank
    /\ PhaseRank' <= PhaseRank + 1
    /\ (Phase # "Running" /\ Phase' = "Running") => (svc = "created" /\ svc' = "running")
    /\ (Phase # "Stopped" /\ Phase' = "Stopped") => Phase = "Draining"

TaskRank(pc) ==
    CASE pc = "none" -> 0
      [] pc = "launched" -> 1
      [] pc = "publish" -> 2
      [] pc = "ended" -> 3
      [] pc = "released" -> 4
      [] pc = "done" -> 5

Launched == {t \in Tasks : tpc[t] # "none"}

\* C14: the k-th fetched record is handed to the k-th Task and to no other
\* (the dispatcher holds at most the last fetched record, until a slot is
\* free); a Task only moves forward and runs processMessage once; the
\* destination receives at most one message per Task, appended only by the
\* confirmed publish of a Task whose record transformed, which is then not
\* counted as failed; a Task whose transformation or publish failed ends
\* with the destination untouched.
C14_AtMostOnePublish ==
    /\ [](/\ Launched = 1..(fetched - (IF curMsg # 0 THEN 1 ELSE 0))
          /\ \A i, j \in 1..Len(dest) : dest[i].task = dest[j].task => i = j
          /\ \A i \in 1..Len(dest) : TaskRank(tpc[dest[i].task]) >= 3)
    /\ [][/\ \A t \in Tasks : TaskRank(tpc'[t]) >= TaskRank(tpc[t])
          /\ \A t \in Tasks : (tpc[t] = "none" /\ tpc'[t] # "none") =>
                (t = fetched /\ tmsg'[t] = curMsg /\ curMsg # 0 /\ curMsg' = 0)
          /\ \A t \in Tasks : (tpc[t] = "launched" /\ tpc'[t] = "ended") => dest' = dest
          /\ dest' # dest =>
                \E t \in Tasks :
                    /\ tpc[t] = "publish" /\ tpc'[t] = "ended"
                    /\ TransformMessage(TaskRecord(t).Value, tcid[t]).kind = "ok"
                    /\ dest' = Append(dest, PublishedMessage(t))
                    /\ metrics'.MessagesFailed = metrics.MessagesFailed]_vars

\* One Task has ended on a failed transformation and another on a failed
\* publish, and the destination holds nothing.
C14_Witness ==
    /\ \E t \in Tasks : tpc[t] \in {"ended", "released", "done"} /\ t \notin {dest[i].task : i \in 1..Len(dest)}
    /\ metrics.MessagesFailed = 2
    /\ metrics.MessagesTransformed = 1
    /\ dest = <<>>

\* A step in which ReadMessage returns without a record.
FetchFails == disp = "reading" /\ disp' # "reading" /\ fetched' = fetched

\* C15: a ReadMessage that returns a timeout or another error takes the
\* dispatcher back to its select and changes nothing else: no Task is
\* launched, the slots, the wait group and the counters stay as they are;
\* back at the select with no other case ready the dispatcher can fetch
\* again.
C15_FetchErrorReiterates ==
    /\ [][FetchFails =>
            /\ disp' = "select"
            /\ UNCHANGED <<semaphore, wg, curMsg, committed, tick>>
            /\ UNCHANGED taskVars
            /\ UNCHANGED <<svc, rep, stopChan, ctxDone, crashed>>
            /\ UNCHANGED stopVars]_vars
    /\ []((~crashed /\ disp = "select" /\ NoCaseReady) => ENABLED DispatcherRead)

\* ReadMessage is about to return without a record while a Task holds a
\* slot and the counters are not zero.
C15_Witness ==
    /\ disp = "reading"
    /\ ENABLED (ReadReturn /\ FetchFails)
    /\ semaphore > 0
    /\ metrics.MessagesReceived > 0
    /\ stopChan = "open" /\ ~ctxDone

\* A step in which the dispatcher takes a tick and Commit advances nothing:
\* ErrNoOffset or another error.
CommitFails == tick /\ ~tick' /\ committed' = committed

\* C16: a Commit that fails, with ErrNoOffset or otherwise, consumes the tick
\* and changes nothing else: the dispatcher is at its select again, the
\* pipeline is in the lifecycle state it was in, no Task, slot or counter
\* is touched; the ticker can fire again and the dispatcher can then call
\* Commit again.
C16_CommitErrorNotFatal ==
    /\ [][CommitFails =>
            /\ disp = "select" /\ disp' = "select"
            /\ Phase' = Phase
            /\ UNCHANGED <<semaphore, wg, curMsg, fetched>>
            /\ UNCHANGED taskVars
            /\ UNCHANGED <<svc, rep, stopChan, ctxDone, crashed>>
            /\ UNCHANGED stopVars]_vars
    /\ [](/\ (~crashed /\ DispatcherAlive /\ ~tick) => ENABLED TickFire
          /\ (~crashed /\ disp = "select" /\ tick) => ENABLED DispatcherCommit)

\* A tick is due, a record is fetched and not committed, its Task is in
\* flight, and the Commit about to be called can fail.
C16_Witness ==
    /\ disp = "select"
    /\ tick
    /\ fetched > committed
    /\ InFlight # {}
    /\ Phase = "Running"
    /\ ENABLED (DispatcherCommit /\ CommitFails)

\* Fetched records the committed position covers whose Task has delivered
\* nothing to the destination.
CommittedUnpublished ==
    {t \in 1..committed : t \notin {dest[i].task : i \in 1..Len(dest)}}

\* C17: the committed position never exceeds the fetched one; a commit that
\* advances it sets it to the number of records fetched so far and neither
\* reads nor changes any Task; such a commit is possible whatever the Tasks
\* of the fetched records are doing.
C17_CommitIgnoresTasks ==
    /\ [](/\ committed <= fetched
          /\ (~crashed /\ disp = "select" /\ tick /\ ~consumerClosed /\ fetched > committed) =>
                ENABLED (DispatcherCommit /\ committed' = fetched))
    /\ [][committed' # committed =>
            /\ committed' = fetched
            /\ fetched' = fetched
            /\ UNCHANGED taskVars]_vars

\* The committed position covers a record whose Task is still in flight and
\* one whose Task failed, and neither has reached the destination.
C17_Witness ==
    /\ \E t \in CommittedUnpublished : tpc[t] \in {"launched", "publish"}
    /\ \E t \in CommittedUnpublished : TaskRank(tpc[t]) >= 3

\* The status code the transformations read from a record: response.statusCode
\* when it is a number, 0 when it is missing.
RecordStatusCode(data) ==
    IF data.response.isObject /\ data.response.statusCode.t = "number" THEN data.response.statusCode.n ELSE 0

\* The static table of reason phrases, and "Unknown" outside it.
StatusTable ==
    [code \in {200, 201, 204, 400, 401, 403, 404, 500, 502, 503} |->
        CASE code = 200 -> "OK" [] code = 201 -> "Created" [] code = 204 -> "No Content"
          [] code = 400 -> "Bad Request" [] code = 401 -> "Unauthorized" [] code = 403 -> "Forbidden"
          [] code = 404 -> "Not Found" [] code = 500 -> "Internal Server Error"
          [] code = 502 -> "Bad Gateway" [] code = 503 -> "Service Unavailable"]

StatusPhrase(code) == IF code \in DOMAIN StatusTable THEN StatusTable[code] ELSE "Unknown"

\* C18: for every inbound record that decodes, the reason phrase in the
\* output of TransformMessage, of TransformToProto and of
\* TransformToProtoFromFlat applied to the output of TransformMessage is the
\* table's phrase for the record's response.statusCode, and "Unknown" for a
\* code outside the table and for a missing code.
C18_StatusPhrase ==
    call.fn = "transform" /\ call.data.valid =>
        /\ call.flat.called /\ call.flat.kind = "ok" =>
              call.flat.output.status = StatusPhrase(RecordStatusCode(call.data))
        /\ call.proto.called =>
              call.proto.kind = "ok" /\ call.proto.output.Status = StatusPhrase(RecordStatusCode(call.data))
        /\ call.protoFromFlat.called =>
              call.protoFromFlat.output.Status = StatusPhrase(RecordStatusCode(call.data))

C18_Witness ==
    /\ call.fn = "transform"
    /\ call.data.valid
    /\ RecordStatusCode(call.data) = 404
    /\ call.flat.called /\ call.flat.output.status = "Not Found"
    /\ call.proto.called /\ call.proto.output.Status = "Not Found"
    /\ call.protoFromFlat.called /\ call.protoFromFlat.output.Status = "Not Found"

\* A bare path: it starts with one "/" and has neither a query nor a fragment.
IsBarePath(s) ==
    /\ HasPrefix(s, <<"/">>)
    /\ ~HasPrefix(s, <<"/", "/">>)
    /\ ~Contains(s, "?")
    /\ ~Contains(s, "#")

\* A full URL: a scheme, "//", a host and whatever follows.
IsFullURL(s) == HasPrefix(s, SchemeAndHost)

\* The path and the query string of a full URL as they are written in it:
\* the fragment is what follows the first "#", the query what follows the
\* first "?" before it, the path what starts at the first "/" after the host.
WrittenPath(s) ==
    LET afterSlashes == SubSeq(s, 5, Len(s))
        hier == Cut(Cut(afterSlashes, "#").before, "?").before
    IN  IF Contains(hier, "/") THEN SubSeq(hier, Index(hier, "/"), Len(hier)) ELSE <<>>

WrittenQuery(s) == Cut(Cut(s, "#").before, "?").after

\* C19: extractURI returns a string that does not parse verbatim, a bare
\* path unchanged, and for a full URL its path (percent-decoded, as net/url
\* reports it), followed by "?" and the query string when there is one.
C19_ExtractURI ==
    call.fn = "extractURI" /\ call.called =>
        /\ Parse(call.fullURL).err => call.uri = call.fullURL
        /\ ~Parse(call.fullURL).err /\ IsBarePath(call.fullURL) => call.uri = call.fullURL
        /\ ~Parse(call.fullURL).err /\ IsFullURL(call.fullURL) =>
              call.uri = IF WrittenQuery(call.fullURL) # <<>>
                         THEN Unescape(WrittenPath(call.fullURL), 1) \o <<"?">> \o WrittenQuery(call.fullURL)
                         ELSE Unescape(WrittenPath(call.fullURL), 1)

\* The string elements of a list, in order.
RECURSIVE StringsOf(_)
StringsOf(items) ==
    IF items = <<>> THEN <<>>
    ELSE IF Head(items).k = "string" THEN <<Head(items).s>> \o StringsOf(Tail(items))
    ELSE StringsOf(Tail(items))

\* The keys of the JSON object an encoded string holds, each with its value
\* (the last one when the text repeats a key).
ObjectKeys(text) ==
    IF text.form = "json" /\ text.doc.k = "object" THEN UnmarshalMap(text).members ELSE <<>>

\* C20: parseHeaders stores each key of a JSON object under its lower-cased
\* name, with the one-element list of its value when that is a string and
\* with the string elements of its value, in order, when that is a list; an
\* empty string and a string that does not parse yield the empty map.
C20_ParseHeaders ==
    call.fn = "parseHeaders" /\ call.called =>
        /\ call.headersStr.form \in {"empty", "invalid"} => call.headers = NoHeaders
        /\ \A i \in 1..Len(ObjectKeys(call.headersStr)) :
              LET key == ObjectKeys(call.headersStr)[i]
              IN  /\ ToLower(key.name) \in DOMAIN call.headers
                  /\ key.value.k = "string" => call.headers[ToLower(key.name)] = <<key.value.s>>
                  /\ key.value.k = "list" => call.headers[ToLower(key.name)] = StringsOf(key.value.items)

\* The whole seconds of a non-negative number of milliseconds, in decimal.
SecondsOf(dateTime) ==
    IF dateTime.d # <<>> THEN SubSeq(dateTime.d, 1, Len(dateTime.d) - 3) ELSE FormatNat(dateTime.n \div 1000)

NonNegative(v) == v.t = "number" /\ v.n >= 0

\* C21: for every non-negative info.dateTime in milliseconds, the timestamp of
\* the flat record is the decimal string of dateTime divided by 1000 and
\* truncated and the timestamp of the protobuf message is the same number; a
\* missing dateTime gives 0.
C21_EpochSeconds ==
    call.fn = "transform" /\ call.data.valid =>
        LET info == call.data.info
            seconds == IF info.isObject /\ NonNegative(info.dateTime) THEN SecondsOf(info.dateTime) ELSE <<"0">>
        IN  (info.isObject => NonNegative(info.dateTime) \/ info.dateTime = Absent) =>
                /\ call.flat.called /\ call.flat.kind = "ok" => call.flat.output.time = seconds
                /\ call.proto.called =>
                      call.proto.output.Time >= 0 /\ FormatNat(call.proto.output.Time) = seconds

C23_ToBinaryPure ==
    call.fn = "transform" /\ call.proto.called /\ call.proto2.called =>
        /\ call.proto.kind = call.proto2.kind
        /\ call.proto.output = call.proto2.output

\* The host component of a URL: what stands between "://" and the next "/",
\* "?" or "#"; none in a string without "://".
HostComponent(u) ==
    LET at == {i \in 1..(Len(u) - 2) : SubSeq(u, i, i + 2) = <<":", "/", "/">>}
        first == CHOOSE i \in at : \A j \in at : i <= j
        authority == SubSeq(u, first + 3, Len(u))
    IN  IF at = {} THEN <<>>
        ELSE Cut(Cut(Cut(authority, "/").before, "?").before, "#").before

\* C24: the request header map of TransformToProto has a host entry exactly
\* when request.url has a host component, and the entry holds that host; an
\* empty URL and a bare path give no host entry.
C24_HostSynthesized ==
    call.fn = "transform" /\ call.proto.called /\ call.data.valid /\ call.data \in URLRecords =>
        LET url == call.data.request.url
            host == IF url.t = "string" THEN HostComponent(url.s) ELSE <<>>
            headers == call.proto.output.RequestHeaders
        IN  /\ HostKey \in DOMAIN headers <=> host # <<>>
            /\ host # <<>> => headers[HostKey] = <<host>>

\* C25: for every record that decodes, TransformToProtoFromFlat applied to
\* the flat record of TransformMessage gives the message TransformToProto
\* gives, field by field.
C25_FlatRouteEqualsDirect ==
    call.fn = "transform" /\ call.data.valid /\ call.proto.called =>
        /\ call.flat.called => call.flat.kind = "ok"
        /\ call.protoFromFlat.called => call.protoFromFlat.output = call.proto.output

\* C27: TransformMessage and TransformToProto return an error and no record
\* exactly when the bytes do not decode, and a record and no error for every
\* input that decodes.
C27_ParseErrorOnly ==
    call.fn = "transform" =>
        /\ call.flat.called =>
              IF call.data.valid THEN call.flat.kind = "ok"
              ELSE call.flat.kind = "error" /\ call.flat.output = NoOutput
        /\ call.proto.called =>
              IF call.data.valid THEN call.proto.kind = "ok"
              ELSE call.proto.kind = "error" /\ call.proto.output = NoProto

\* C26: TransformToProtoFromFlat returns a message and no error for every
\* flat record, and a field it cannot read (missing, of another type, or a
\* status code or timestamp string that is no number) has its empty or zero
\* default.
C26_FromFlatNeverFails ==
    call.fn = "fromFlat" /\ call.called =>
        /\ call.kind = "ok"
        /\ call.flatData.method.t # "string" => call.output.Method = ""
        /\ call.flatData.path.t # "string" => call.output.Path = <<>>
        /\ call.flatData.status.t # "string" => call.output.Status = ""
        /\ call.flatData.requestHeaders.t # "string" => call.output.RequestHeaders = NoHeaders
        /\ call.flatData.requestHeaders = Str(InvalidText) => call.output.RequestHeaders = NoHeaders
        /\ call.flatData.statusCode.t \notin {"string", "number"} => call.output.StatusCode = 0
        /\ call.flatData.time.t \notin {"string", "number"} => call.output.Time = 0
        /\ call.flatData.statusCode \in {Chars(<<"2", "0", "0", ".", "5">>), Chars(<<"O", "K">>), Chars(<<>>)} =>
              call.output.StatusCode = 0
        /\ call.flatData.time = Chars(<<"1", "2", "a">>) => call.output.Time = 0
        /\ call.flatData.statusCode = Chars(<<"2", "0", "0">>) => call.output.StatusCode = 200

C26_Witness ==
    /\ call.fn = "fromFlat"
    /\ call.called
    /\ call.kind = "ok"
    /\ \A key \in DOMAIN call.flatData : call.flatData[key] = Absent
    /\ call.output = [NoProto EXCEPT !.AktoVxlanId = "0"]

\* C28: the dispatcher holds at most one fetched record, fetches the next
\* only after the one before was handed to a Task, and launches the Tasks in
\* fetch order, one for each fetched record and with that record: the
\* launched Tasks are the fetched records but the one still held.
C28_FetchOrder ==
    /\ [](/\ (curMsg # 0 => disp = "acquire" /\ fetched > 0)
          /\ \A t \in Tasks :
                tpc[t] # "none" <=> (t < fetched \/ (t = fetched /\ curMsg = 0)))
    /\ [][/\ fetched' \in {fetched, fetched + 1}
          /\ (fetched' = fetched + 1 => curMsg = 0 /\ curMsg' # 0)
          /\ \A t \in Tasks :
                (tpc[t] = "none" /\ tpc'[t] # "none") =>
                    /\ t = fetched
                    /\ curMsg # 0
                    /\ tmsg'[t] = curMsg
                    /\ curMsg' = 0
                    /\ fetched' = fetched]_vars

\* With two slots the record fetched second is delivered before the record
\* fetched first.
C28_Witness ==
    /\ slots >= 2
    /\ \E i, j \in 1..Len(dest) : i < j /\ dest[i].task > dest[j].task

\* C29: NewProducer makes at most maxRetries attempts, returns the producer
\* of its first successful attempt, and an error only after the last attempt
\* failed; New returns a service exactly when both handles were created, no
\* producer attempt follows a failed consumer creation, and when no producer
\* was created the consumer is closed before New returns.
C29_StartupAllOrNothing ==
    call.fn = "New" =>
        /\ Len(call.tries) <= maxRetries
        /\ call.attempt <= maxRetries
        /\ Len(call.tries) > 0 /\ call.pc \in {"producerReturned", "returned"} =>
              /\ call.producer # 0 <=> call.err = NoError
              /\ call.producer # 0 =>
                    /\ call.producer = Len(call.tries)
                    /\ call.tries[call.producer] = "ok"
                    /\ \A i \in 1..(call.producer - 1) : call.tries[i] # "ok"
              /\ call.producer = 0 =>
                    /\ Len(call.tries) = maxRetries
                    /\ \A i \in 1..maxRetries : call.tries[i] # "ok"
                    /\ call.err.cause = call.tries[maxRetries]
        /\ call.pc = "returned" =>
              /\ call.service <=> call.err = NoError
              /\ call.service => call.consumer = "open" /\ call.producer # 0
              /\ ~call.service => call.consumer \in {"none", "closed"} /\ call.producer = 0
              /\ call.consumer = "none" => call.tries = <<>>
              /\ ~call.service /\ call.tries # <<>> => call.consumer = "closed"

\* New has returned after the last producer attempt failed: no service and
\* the consumer closed.
C29_Witness ==
    /\ call.fn = "New"
    /\ call.pc = "returned"
    /\ Len(call.tries) = maxRetries
    /\ call.err.msg = "failed to create producer after 5 attempts"
    /\ call.consumer = "closed"
    /\ ~call.service

\* C30: in every state published <= transformed <= received and
\* published + failed <= received; the step that takes a Task into
\* processMessage adds one to received; and once the goroutine of every
\* launched Task has ended, received = published + failed = the number of
\* launched Tasks.
C30_CountersConsistent ==
    /\ [](LET m == GetSnapshot(metrics)
              launched == {t \in Tasks : tpc[t] # "none"}
          IN  /\ m.published <= m.transformed
              /\ m.transformed <= m.received
              /\ m.published + m.failed <= m.received
              /\ (\A t \in launched : tpc[t] = "done") =>
                    /\ m.received = m.published + m.failed
                    /\ m.received = Cardinality(launched))
    /\ [][\A t \in Tasks :
             (tpc[t] = "launched" /\ tpc'[t] # "launched") =>
                 metrics'.MessagesReceived = metrics.MessagesReceived + 1]_vars

\* C32: the average duration of a snapshot is the accumulated processing
\* time divided by the number of Tasks whose duration was added to it, the
\* Tasks that reached IncrementPublished and AddProcessingTime, and 0 when no
\* duration was added.
C32_AverageOverAccumulated ==
    LET m == GetSnapshot(metrics)
    IN  m.avg_time = IF m.published > 0 THEN m.total_time \div m.published ELSE 0

\* The fetch loop, the reporter and every launched Task have finished and
\* Stop has returned through its "all goroutines stopped" branch.
Drained ==
    /\ disp = "exited"
    /\ rep = "exited"
    /\ \A t \in Tasks : tpc[t] \in {"none", "done"}
    /\ stopBranch = "done"
    /\ stop = "returned"

\* C31: in a behaviour where the goroutine of every launched Task eventually
\* ends and the deadline of Stop never elapses, once stopChan is closed the
\* fetch loop, the reporter and all Tasks eventually finish and Stop returns
\* through its "all goroutines stopped" branch.
C31_DrainLiveness ==
    (/\ [](stopBranch # "timeout")
     /\ \A t \in Tasks : <>[](tpc[t] \in {"none", "done"}))
    => ((stopChan = "closed") ~> Drained)

\* C33: once the context given to Start is cancelled the dispatcher at its
\* select can exit and starts no fetch, the reporter can exit, and the Tasks
\* already dispatched go on and release their slots; the cancellation itself
\* changes no Task, no slot and no handle; the consumer and the producer stay
\* open until Stop closes them; and Stop can still be called, takes its
\* "all goroutines stopped" branch once the wait group is at zero, and has
\* closed both handles when it has returned.
C33_CancelLikeStop ==
    /\ [](/\ (~crashed /\ ctxDone /\ disp = "select") =>
                (ENABLED DispatcherCtxDone /\ ~ENABLED DispatcherRead)
          /\ (~crashed /\ ctxDone /\ rep = "loop") => ENABLED ReportExit
          /\ \A t \in Tasks :
                (~crashed /\ ctxDone) =>
                    /\ tpc[t] = "publish" => ENABLED TaskPublish(t)
                    /\ tpc[t] = "ended" => ENABLED TaskRelease(t)
                    /\ tpc[t] = "released" => ENABLED TaskDone(t)
          /\ (ctxDone /\ stop \in {"none", "select"}) => (~consumerClosed /\ ~producerClosed)
          /\ (~crashed /\ ctxDone /\ svc = "running" /\ stop = "none") => ENABLED StopCall
          /\ (~crashed /\ ctxDone /\ stop = "select" /\ wg = 0) => ENABLED StopDone
          /\ (~crashed /\ ctxDone /\ stop = "closing") => ENABLED StopClose
          /\ (ctxDone /\ stop = "returned") => (consumerClosed /\ producerClosed))
    /\ [][/\ (~ctxDone /\ ctxDone') => UNCHANGED <<taskVars, semaphore, wg, disp, rep, stopVars>>
          /\ ctxDone => ~(disp # "reading" /\ disp' = "reading")
          /\ (ctxDone /\ disp \in {"select", "exited"}) =>
                (disp' \in {"select", "exited"} /\ fetched' = fetched /\ ~Launches)
          /\ \A t \in Tasks :
                (ctxDone /\ tpc[t] = "ended" /\ tpc'[t] # "ended") =>
                    (tpc'[t] = "released" /\ semaphore' = semaphore - 1)]_vars

\* The context is cancelled and Stop was not called: the dispatcher and the
\* reporter have exited, a Task dispatched before still holds its slot, and
\* both handles are open.
C33_Witness ==
    /\ ctxDone
    /\ stop = "none"
    /\ stopChan = "open"
    /\ disp = "exited"
    /\ rep = "exited"
    /\ \E t \in Tasks : tpc[t] = "publish"
    /\ semaphore > 0
    /\ ~consumerClosed
    /\ ~producerClosed

====
